---- MODULE Spec2Model ----
(***************************************************************************)
(* Swarm session tracking of claudecodeui: the claude-flow routes          *)
(* (server/routes/claude-flow.js) over the swarm store (swarmDb,           *)
(* credentialsDb) and the swarm_sessions table (swarm-schema.sql).         *)
(*                                                                         *)
(* Texts (stdout, stderr, messages) are sequences of tokens, so that the   *)
(* code's string concatenation is sequence concatenation.  A nullable      *)
(* value is Null or Some(v).                                               *)
(***************************************************************************)
EXTENDS Integers, Sequences, FiniteSets, TLC

VARIABLES
    sessions,     \* swarm_sessions: session_id -> row (the rows that exist)
    credentials,  \* user_credentials: user -> active claude_api_key, or Null
    reqs,         \* the execute requests: request -> handler closure and response
    now,          \* the clock behind Date.now() and CURRENT_TIMESTAMP
    workers,      \* swarm_workers: the rows, in order of insertion
    mems,         \* the memory requests: request -> handler closure and response
    memory_operations,  \* memory_operations: the rows, in order of insertion
    node,         \* the server process: "up", or "crashed" by an uncaught exception
    agent_metrics, \* agent_metrics: the rows, in the order of their insertion
    swarm_templates, \* swarm_templates: the rows, in the order of their insertion
    client        \* the browser's executeSwarm call: the bytes on the wire, its position

vars == <<sessions, credentials, reqs, now, workers, mems, memory_operations, node,
          agent_metrics, swarm_templates, client>>

(***************************** bounds ***************************************)
MaxSessions == 2
MaxChunks == 2
MaxClock == 1
MaxUpdates == 3
MaxStarts == 2
MaxCustom == 2
MaxFrames == 2

\* session i stands for the identifier `swarm-<uuid i>`
SessionIds == 1..MaxSessions
\* an identifier that no create request ever returned
StrangerId == MaxSessions + 1
\* the sessionId of a request body that has none
MissingId == 0
\* the execute requests the model follows, in their order of arrival
ReqIds == {1, 2}
\* the memory requests the model follows
MemIds == {1}
Users == {1, 2}

(***************************** values ***************************************)
Null == <<>>
Some(v) == <<v>>

Last(s) == s[Len(s)]

\* the text of the i-th chunk a subprocess writes to its pipes
ChunkText(i) == <<"chunk" \o ToString(i)>>
ExitCodes == {0, 1}
\* exit code node reports on 'close' after a failed spawn (-ENOENT)
SpawnFailCode == -2
SpawnErrMsg == <<"spawn npx ENOENT">>
CredErrMsg == <<"Claude API key not configured. Please add your Claude API key in settings.">>
InitMsg == <<"Initializing swarm...">>

TerminalStatuses == {"completed", "failed", "aborted"}
Statuses == {"active"} \cup TerminalStatuses


ProjectNames == {"", "acme"}
ProjectPaths == {"", "/p"}
TaskDescriptions == {"", "fix bug"}
SwarmTypes == {"quick", "hive-mind"}
ApiKeys == {"sk-1"}

\* JSON.stringify / JSON.parse of a metadata object: the column holds the text
JsonStringify(value) == [json |-> value]
JsonParse(text) == text.json

(***************************** the store ************************************)
\* column defaults of swarm_sessions for the columns the INSERT leaves out
NewRow(id, userId, sessionId, projectName, projectPath, swarmType, taskDescription, namespace, metadata) ==
    [ id               |-> id,
      session_id       |-> sessionId,
      user_id          |-> userId,
      project_name     |-> projectName,
      project_path     |-> projectPath,
      swarm_type       |-> swarmType,
      task_description |-> taskDescription,
      status           |-> "active",
      namespace        |-> namespace,
      created_at       |-> now,
      completed_at     |-> Null,
      error_message    |-> Null,
      metadata         |-> JsonStringify(metadata) ]

createSwarmSession(db, userId, sessionId, projectName, projectPath, swarmType, taskDescription, metadata) ==
    LET namespace == <<projectName, now>>
        \* id INTEGER PRIMARY KEY AUTOINCREMENT, of a table nothing is deleted from
        id == Cardinality(DOMAIN db) + 1
        row == NewRow(id, userId, sessionId, projectName, projectPath, swarmType,
                      taskDescription, namespace, metadata)
    IN  [s \in DOMAIN db \cup {sessionId} |-> IF s = sessionId THEN row ELSE db[s]]

\* session_id TEXT UNIQUE: the INSERT of a session_id that has a row throws
createSwarmSessionThrows(db, sessionId) == sessionId \in DOMAIN db

\* the row with its metadata parsed, or Null when there is none
getSwarmSession(db, sessionId) ==
    IF sessionId \in DOMAIN db
    THEN Some([db[sessionId] EXCEPT !.metadata = JsonParse(@)])
    ELSE Null

\* mutant: completed_at is the start of the clock, not its current value
updateSwarmStatus_Epoch(db, sessionId, status, errorMessage) ==
    LET completedAt == IF status \in {"completed", "failed", "aborted"}
                       THEN Some(0) ELSE Null
    IN  [s \in DOMAIN db |->
            IF s = sessionId
            THEN [db[s] EXCEPT !.status = status,
                               !.error_message = errorMessage,
                               !.completed_at = completedAt]
            ELSE db[s]]

\* mutant: 'aborted' is not counted among the terminal statuses
updateSwarmStatus_NoAborted(db, sessionId, status, errorMessage) ==
    LET completedAt == IF status \in {"completed", "failed"}
                       THEN Some(now) ELSE Null
    IN  [s \in DOMAIN db |->
            IF s = sessionId
            THEN [db[s] EXCEPT !.status = status,
                               !.error_message = errorMessage,
                               !.completed_at = completedAt]
            ELSE db[s]]

\* mutant: the UPDATE has no WHERE clause
updateSwarmStatus_NoWhere(db, sessionId, status, errorMessage) ==
    LET completedAt == IF status \in {"completed", "failed", "aborted"}
                       THEN Some(now) ELSE Null
    IN  [s \in DOMAIN db |->
            [db[s] EXCEPT !.status = status,
                          !.error_message = errorMessage,
                          !.completed_at = completedAt]]

updateSwarmStatus(db, sessionId, status, errorMessage) ==
    LET completedAt == IF status \in {"completed", "failed", "aborted"}
                       THEN Some(now) ELSE Null
    IN  [s \in DOMAIN db |->
            IF s = sessionId
            THEN [db[s] EXCEPT !.status = status,
                               !.error_message = errorMessage,
                               !.completed_at = completedAt]
            ELSE db[s]]

\* mutant: the update reports success whatever it changed
updateSwarmStatusChanged_Always(db, sessionId) == TRUE

\* result.changes > 0
updateSwarmStatusChanged(db, sessionId) == sessionId \in DOMAIN db

getActiveCredential(userId) == credentials[userId]

(***************************** the response *********************************)
\* res of one request.  stream: the frames written; seen: for each frame, the
\* status the store held for the session when it was written; faults: writes
\* and completions attempted after the response was ended; connected: the
\* consumer still holds the connection; delivered: the frames it received.
FreshRes ==
    [ statusCode |-> 200, stream |-> <<>>, seen |-> <<>>,
      ended |-> FALSE, body |-> Null, faults |-> 0,
      connected |-> TRUE, delivered |-> 0 ]

StoredStatus(db, sessionId) ==
    IF sessionId \in DOMAIN db THEN db[sessionId].status ELSE "none"

resWrite(res, frame, db) ==
    IF res.ended
    THEN [res EXCEPT !.faults = @ + 1]
    ELSE [res EXCEPT !.stream = Append(@, frame),
                     !.seen = Append(@, StoredStatus(db, frame.sessionId)),
                     !.delivered = IF res.connected THEN @ + 1 ELSE @]

resEnd(res) ==
    IF res.ended THEN [res EXCEPT !.faults = @ + 1]
                 ELSE [res EXCEPT !.ended = TRUE]

resJson(res, code, body) ==
    IF res.ended
    THEN [res EXCEPT !.faults = @ + 1]
    ELSE [res EXCEPT !.statusCode = code, !.body = Some(body), !.ended = TRUE]

sendEvent(res, streaming, eventType, data, db) ==
    IF streaming THEN resWrite(res, [type |-> eventType] @@ data, db) ELSE res

(***************************** templates ************************************)
\* the six rows of the INSERT of the schema: template_name, swarm_type,
\* default_namespace
SystemTemplates ==
    << <<"Bug Fix Swarm", "quick", "bugfix">>,
       <<"Feature Development", "hive-mind", "feature">>,
       <<"Code Review", "quick", "review">>,
       <<"Refactoring", "hive-mind", "refactor">>,
       <<"Documentation", "quick", "docs">>,
       <<"Testing", "quick", "testing">> >>

\* a row of swarm_templates; id is the AUTOINCREMENT key
NewTemplate(id, userId, templateName, swarmType, defaultNamespace, isSystem, at) ==
    [ id |-> id, user_id |-> userId, template_name |-> templateName,
      swarm_type |-> swarmType, default_namespace |-> defaultNamespace,
      is_system |-> isSystem, created_at |-> at, updated_at |-> at ]

\* the constraints of swarm_templates a new row can violate: the primary key
\* is the only column that must be unique
TemplateConflict(rows, row) == \E i \in DOMAIN rows : rows[i].id = row.id

RECURSIVE InsertOrIgnoreTemplates(_, _, _)
\* INSERT OR IGNORE INTO swarm_templates ... VALUES of the given rows, in
\* order: a row is skipped when it violates a constraint of the table
InsertOrIgnoreTemplates(rows, values, at) ==
    IF values = <<>> THEN rows
    ELSE LET row == NewTemplate(Len(rows) + 1, Null, Head(values)[1], Head(values)[2],
                                Some(Head(values)[3]), 1, at)
         IN  InsertOrIgnoreTemplates(
                 IF TemplateConflict(rows, row) THEN rows ELSE Append(rows, row),
                 Tail(values), at)

\* db.exec(swarmSQL) on the templates: CREATE TABLE IF NOT EXISTS keeps the
\* rows, the INSERT OR IGNORE runs again
ExecSwarmSchema(rows, at) == InsertOrIgnoreTemplates(rows, SystemTemplates, at)

\* the templates of a database that was initialised once
InstalledTemplates == ExecSwarmSchema(<<>>, 0)

\* swarmDb.getSwarmTemplates before ORDER BY: the positions of the rows
getSwarmTemplates(rows, userId, includeSystem) ==
    IF includeSystem /\ userId # Null
    THEN {i \in DOMAIN rows : rows[i].is_system = 1 \/ rows[i].user_id = userId}
    ELSE IF includeSystem THEN {i \in DOMAIN rows : rows[i].is_system = 1}
    ELSE IF userId # Null THEN {i \in DOMAIN rows : rows[i].user_id = userId}
    ELSE {}

\* swarmDb.createSwarmTemplate
createSwarmTemplate(rows, userId, templateName, swarmType, defaultNamespace) ==
    Append(rows, NewTemplate(Len(rows) + 1, Some(userId), templateName, swarmType,
                             defaultNamespace, 0, now))

(***************************** client ***************************************)
\* the texts of the wire are sequences of characters; the JSON text of an
\* event is cut into its opening brace, its content and its closing brace
SsePrefix == <<"d", "a", "t", "a", ":", " ">>
EventTypes == {"status", "output", "completed"}

\* JSON.stringify({ type: eventType, ...data })
StringifyEvent(event) == <<"{", event.type, "}">>

\* JSON.parse(text): the event, or Null where JSON.parse throws
ParseEvent(text) ==
    IF Len(text) = 3 /\ text[1] = "{" /\ text[3] = "}" /\ text[2] \in EventTypes
    THEN Some([type |-> text[2]])
    ELSE Null

\* res.write(`data: ${JSON.stringify(...)}\n\n`): the characters of one frame
FrameText(event) == SsePrefix \o StringifyEvent(event) \o <<"\n", "\n">>

RECURSIVE WireOf(_)
\* the characters of a response whose frames are the given events
WireOf(events) ==
    IF events = <<>> THEN <<>> ELSE FrameText(Head(events)) \o WireOf(Tail(events))

RECURSIVE SplitLines(_)
\* chunk.split('\n')
SplitLines(text) ==
    IF \A i \in DOMAIN text : text[i] # "\n" THEN <<text>>
    ELSE LET cut == CHOOSE i \in DOMAIN text :
                        text[i] = "\n" /\ \A j \in 1..(i - 1) : text[j] # "\n"
         IN  <<SubSeq(text, 1, cut - 1)>> \o SplitLines(SubSeq(text, cut + 1, Len(text)))

\* line.startsWith('data: ')
StartsWithData(line) ==
    Len(line) >= Len(SsePrefix) /\ SubSeq(line, 1, Len(SsePrefix)) = SsePrefix

RECURSIVE OnLines(_)
\* the for loop over the lines of one chunk: the events given to onMessage
OnLines(lines) ==
    IF lines = <<>> THEN <<>>
    ELSE LET line == Head(lines)
             data == IF StartsWithData(line)
                     THEN ParseEvent(SubSeq(line, Len(SsePrefix) + 1, Len(line)))
                     ELSE Null
         IN  data \o OnLines(Tail(lines))

\* executeSwarm before the fetch
IdleClient == [pc |-> "idle", frames |-> <<>>, wire |-> <<>>, received |-> <<>>]

(***************************** requests *************************************)
\* an execute request that has not been made yet
IdleReq ==
    [ pc |-> "idle", userId |-> 0, sessionId |-> 0, streaming |-> FALSE,
      startTime |-> 0, stdout |-> <<>>, stderr |-> <<>>, chunks |-> <<>>,
      spawn |-> Null, exitCode |-> Null, res |-> FreshRes ]

\* crypto.randomUUID() when it returns a new identifier: the next one
NewSessionId(db) == Cardinality(DOMAIN db) + 1

\* spawn() was called for the request
Spawned(req) == req.spawn # Null

\* spawn('npx', args, {cwd, env}): what the subprocess is started with
SpawnOf(swarmSession, taskDescription, swarmType, claudeApiKey) ==
    [ args |-> <<"claude-flow@alpha", "swarm", taskDescription, "--claude">>
                  \o (IF swarmType = "hive-mind" THEN <<"--hive-mind">> ELSE <<>>),
      cwd |-> swarmSession.project_path,
      ANTHROPIC_API_KEY |-> claudeApiKey[1] ]

\* a memory request that has not been made yet
IdleMem ==
    [ pc |-> "idle", route |-> "", userId |-> 0, operationType |-> "",
      namespace |-> "", key |-> "", query |-> "", startTime |-> 0,
      stdout |-> <<>>, stderr |-> <<>>, chunks |-> <<>>,
      spawn |-> Null, exitCode |-> Null, res |-> FreshRes ]

\* the next execute request to arrive
NextReq ==
    CHOOSE r \in ReqIds :
        reqs[r].pc = "idle" /\ \A q \in ReqIds : q < r => reqs[q].pc # "idle"

Init ==
    /\ sessions = <<>>
    /\ credentials = [u \in Users |-> Null]
    /\ reqs = [r \in ReqIds |-> IdleReq]
    /\ now = 0
    /\ workers = <<>>
    /\ mems = [m \in MemIds |-> IdleMem]
    /\ memory_operations = <<>>
    /\ node = "up"
    /\ agent_metrics = <<>>
    /\ swarm_templates = InstalledTemplates
    /\ client = IdleClient

\* mutant: the handler answers success whether or not the INSERT went through
CreateReply_NoUnique(db, userId, sessionId, projectName, projectPath, taskDescription, swarmType) ==
    IF projectName = "" \/ projectPath = "" \/ taskDescription = ""
    THEN [statusCode |-> 400, body |-> [error |-> "Missing required fields"]]
    ELSE [statusCode |-> 200,
          body |-> [success |-> TRUE, sessionId |-> sessionId,
                    namespace |-> <<projectName, now>>, swarmType |-> swarmType,
                    projectName |-> projectName, status |-> "active"]]

\* mutant: the handler does not validate the body
CreateDb_NoValidation(db, userId, sessionId, projectName, projectPath, taskDescription, swarmType) ==
    IF createSwarmSessionThrows(db, sessionId)
    THEN db
    ELSE createSwarmSession(db, userId, sessionId, projectName, projectPath,
                            swarmType, taskDescription, [agentTypes |-> <<>>])

(* POST /swarm/create: what the handler answers; sessionId is the identifier
   that crypto.randomUUID() gave it.  "" stands for an empty or missing field. *)
CreateReply(db, userId, sessionId, projectName, projectPath, taskDescription, swarmType) ==
    IF projectName = "" \/ projectPath = "" \/ taskDescription = ""
    THEN [statusCode |-> 400, body |-> [error |-> "Missing required fields"]]
    ELSE IF createSwarmSessionThrows(db, sessionId)
    THEN [statusCode |-> 500, body |-> [error |-> "Failed to create swarm"]]
    ELSE LET db1 == createSwarmSession(db, userId, sessionId, projectName,
                        projectPath, swarmType, taskDescription, [agentTypes |-> <<>>])
         IN  [statusCode |-> 200,
              body |-> [success |-> TRUE,
                        sessionId |-> db1[sessionId].session_id,
                        namespace |-> db1[sessionId].namespace,
                        swarmType |-> swarmType,
                        projectName |-> projectName,
                        status |-> "active"]]

(* POST /swarm/create: the store after the handler *)
CreateDb(db, userId, sessionId, projectName, projectPath, taskDescription, swarmType) ==
    IF projectName = "" \/ projectPath = "" \/ taskDescription = ""
    THEN db
    ELSE IF createSwarmSessionThrows(db, sessionId)
    THEN db
    ELSE createSwarmSession(db, userId, sessionId, projectName, projectPath,
                            swarmType, taskDescription, [agentTypes |-> <<>>])

CreateSwarm(userId, sessionId, projectName, projectPath, taskDescription, swarmType) ==
    /\ sessions' = CreateDb(sessions, userId, sessionId, projectName, projectPath,
                            taskDescription, swarmType)
    /\ UNCHANGED <<client, swarm_templates, credentials, reqs, now, workers, mems, memory_operations, node, agent_metrics>>

\* mutant: the subprocess is spawned without looking at the credential
ExecuteHandler_SpawnFirst(userId, sessionId, taskDescription, swarmType, streaming) ==
    LET swarmSession == getSwarmSession(sessions, sessionId)[1]
        res0 == sendEvent(FreshRes, streaming, "status",
                          [message |-> InitMsg, sessionId |-> sessionId], sessions)
        req == [IdleReq EXCEPT !.userId = userId, !.sessionId = sessionId,
                               !.streaming = streaming]
    IN  [req EXCEPT !.pc = "running", !.startTime = now, !.res = res0,
                    !.spawn = Some(SpawnOf(swarmSession, taskDescription, swarmType,
                                           Some("")))]

\* mutant: the missing credential is answered without res.status(400)
ExecuteHandler_NoStatus(userId, sessionId, taskDescription, swarmType, streaming) ==
    LET swarmSession == getSwarmSession(sessions, sessionId)[1]
        res0 == sendEvent(FreshRes, streaming, "status",
                          [message |-> InitMsg, sessionId |-> sessionId], sessions)
        claudeApiKey == getActiveCredential(userId)
        req == [IdleReq EXCEPT !.userId = userId, !.sessionId = sessionId,
                               !.streaming = streaming]
    IN  IF claudeApiKey = Null
        THEN LET res1 == sendEvent(res0, streaming, "error",
                             [message |-> CredErrMsg, sessionId |-> sessionId], sessions)
                 res2 == IF streaming THEN resEnd(res1)
                         ELSE resJson(res1, 200, [error |-> CredErrMsg])
             IN  [req EXCEPT !.pc = "done", !.res = res2]
        ELSE [req EXCEPT !.pc = "running", !.startTime = now, !.res = res0,
                         !.spawn = Some(SpawnOf(swarmSession, taskDescription,
                                                swarmType, claudeApiKey))]

(* POST /swarm/execute: the handler from the stream setup to the spawn *)
ExecuteHandler(userId, sessionId, taskDescription, swarmType, streaming) ==
    LET swarmSession == getSwarmSession(sessions, sessionId)[1]
        res0 == sendEvent(FreshRes, streaming, "status",
                          [message |-> InitMsg, sessionId |-> sessionId], sessions)
        claudeApiKey == getActiveCredential(userId)
        req == [IdleReq EXCEPT !.userId = userId, !.sessionId = sessionId,
                               !.streaming = streaming]
    IN  IF claudeApiKey = Null
        THEN LET res1 == sendEvent(res0, streaming, "error",
                             [message |-> CredErrMsg, sessionId |-> sessionId], sessions)
                 res2 == IF streaming THEN resEnd(res1)
                         ELSE resJson(res1, 400, [error |-> CredErrMsg])
             IN  [req EXCEPT !.pc = "done", !.res = res2]
        ELSE [req EXCEPT !.pc = "running", !.startTime = now, !.res = res0,
                         !.spawn = Some(SpawnOf(swarmSession, taskDescription,
                                                swarmType, claudeApiKey))]

\* the early returns of the handler: what it answers before it uses the stream
ExecuteEarlyReply(db, sessionId, taskDescription) ==
    IF sessionId = MissingId \/ taskDescription = ""
    THEN Some([statusCode |-> 400, body |-> [error |-> "Missing required fields"]])
    ELSE IF getSwarmSession(db, sessionId) = Null
    THEN Some([statusCode |-> 404, body |-> [error |-> "Swarm session not found"]])
    ELSE Null

ExecuteSwarm(r, userId, sessionId, taskDescription, swarmType, streaming) ==
    /\ reqs[r].pc = "idle"
    /\ r = NextReq
    /\ reqs' = [reqs EXCEPT ![r] =
                   IF ExecuteEarlyReply(sessions, sessionId, taskDescription) # Null
                   THEN reqs[r]
                   ELSE ExecuteHandler(userId, sessionId, taskDescription,
                                       swarmType, streaming)]
    /\ UNCHANGED <<client, swarm_templates, sessions, credentials, now, workers, mems, memory_operations, node, agent_metrics>>

\* mutant: stdout keeps the last chunk only (= instead of +=)
OnStdout_Overwrite(req, chunk) ==
    [req EXCEPT !.stdout = chunk,
                !.chunks = Append(@, [channel |-> "stdout", text |-> chunk]),
                !.res = sendEvent(@, req.streaming, "output",
                            [message |-> chunk, sessionId |-> req.sessionId], sessions)]

(* claudeFlowProcess.stdout.on('data') *)
OnStdout(req, chunk) ==
    [req EXCEPT !.stdout = @ \o chunk,
                !.chunks = Append(@, [channel |-> "stdout", text |-> chunk]),
                !.res = sendEvent(@, req.streaming, "output",
                            [message |-> chunk, sessionId |-> req.sessionId], sessions)]

\* mutant: stderr keeps the last chunk only (= instead of +=)
OnStderr_Overwrite(req, chunk) ==
    [req EXCEPT !.stderr = chunk,
                !.chunks = Append(@, [channel |-> "stderr", text |-> chunk]),
                !.res = sendEvent(@, req.streaming, "error",
                            [message |-> chunk, sessionId |-> req.sessionId], sessions)]

\* mutant: stderr chunks are relayed with the tag of stdout chunks
OnStderr_AsOutput(req, chunk) ==
    [req EXCEPT !.stderr = @ \o chunk,
                !.chunks = Append(@, [channel |-> "stderr", text |-> chunk]),
                !.res = sendEvent(@, req.streaming, "output",
                            [message |-> chunk, sessionId |-> req.sessionId], sessions)]

(* claudeFlowProcess.stderr.on('data') *)
OnStderr(req, chunk) ==
    [req EXCEPT !.stderr = @ \o chunk,
                !.chunks = Append(@, [channel |-> "stderr", text |-> chunk]),
                !.res = sendEvent(@, req.streaming, "error",
                            [message |-> chunk, sessionId |-> req.sessionId], sessions)]

ProcStdout(r) ==
    /\ reqs[r].pc = "running"
    /\ Len(reqs[r].chunks) < MaxChunks
    /\ reqs' = [reqs EXCEPT ![r] = OnStdout(reqs[r], ChunkText(Len(reqs[r].chunks) + 1))]
    /\ UNCHANGED <<client, swarm_templates, sessions, credentials, now, workers, mems, memory_operations, node, agent_metrics>>

ProcStderr(r) ==
    /\ reqs[r].pc = "running"
    /\ Len(reqs[r].chunks) < MaxChunks
    /\ reqs' = [reqs EXCEPT ![r] = OnStderr(reqs[r], ChunkText(Len(reqs[r].chunks) + 1))]
    /\ UNCHANGED <<client, swarm_templates, sessions, credentials, now, workers, mems, memory_operations, node, agent_metrics>>

\* mutant: the close handler updates the sessions without the session_id
OnCloseDb_AnySession(db, req, code) ==
    IF code = 0
    THEN updateSwarmStatus_NoWhere(db, req.sessionId, "completed", Null)
    ELSE updateSwarmStatus_NoWhere(db, req.sessionId, "failed", Some(req.stderr))

\* mutant: the close handler gives up when the consumer is gone
OnCloseDb_IfConnected(db, req, code) ==
    IF ~req.res.connected THEN db
    ELSE IF code = 0
    THEN updateSwarmStatus(db, req.sessionId, "completed", Null)
    ELSE updateSwarmStatus(db, req.sessionId, "failed", Some(req.stderr))

(* claudeFlowProcess.on('close'): the store after the handler *)
OnCloseDb(db, req, code) ==
    IF code = 0
    THEN updateSwarmStatus(db, req.sessionId, "completed", Null)
    ELSE updateSwarmStatus(db, req.sessionId, "failed", Some(req.stderr))

\* mutant: the closing event is sent before the store is updated
OnCloseRes_SendFirst(db, req, code) ==
    LET duration == now - req.startTime
        res1 == IF code = 0
                THEN sendEvent(req.res, req.streaming, "completed",
                         [message |-> <<"Swarm completed successfully">>,
                          sessionId |-> req.sessionId, duration |-> duration,
                          output |-> req.stdout], db)
                ELSE sendEvent(req.res, req.streaming, "failed",
                         [message |-> <<"Swarm execution failed">>,
                          sessionId |-> req.sessionId, duration |-> duration,
                          error |-> req.stderr], db)
    IN  IF req.streaming
        THEN resEnd(res1)
        ELSE resJson(res1, 200, [success |-> code = 0, sessionId |-> req.sessionId,
                                 duration |-> duration, output |-> req.stdout,
                                 error |-> req.stderr])

\* mutant: the close handler sends the closing event and leaves the stream open
OnCloseRes_NoEnd(db, req, code) ==
    LET duration == now - req.startTime
        db1 == OnCloseDb(db, req, code)
        res1 == IF code = 0
                THEN sendEvent(req.res, req.streaming, "completed",
                         [message |-> <<"Swarm completed successfully">>,
                          sessionId |-> req.sessionId, duration |-> duration,
                          output |-> req.stdout], db1)
                ELSE sendEvent(req.res, req.streaming, "failed",
                         [message |-> <<"Swarm execution failed">>,
                          sessionId |-> req.sessionId, duration |-> duration,
                          error |-> req.stderr], db1)
    IN  IF req.streaming
        THEN res1
        ELSE resJson(res1, 200, [success |-> code = 0, sessionId |-> req.sessionId,
                                 duration |-> duration, output |-> req.stdout,
                                 error |-> req.stderr])

(* claudeFlowProcess.on('close'): the response after the handler *)
OnCloseRes(db, req, code) ==
    LET duration == now - req.startTime
        db1 == OnCloseDb(db, req, code)
        res1 == IF code = 0
                THEN sendEvent(req.res, req.streaming, "completed",
                         [message |-> <<"Swarm completed successfully">>,
                          sessionId |-> req.sessionId, duration |-> duration,
                          output |-> req.stdout], db1)
                ELSE sendEvent(req.res, req.streaming, "failed",
                         [message |-> <<"Swarm execution failed">>,
                          sessionId |-> req.sessionId, duration |-> duration,
                          error |-> req.stderr], db1)
    IN  IF req.streaming
        THEN resEnd(res1)
        ELSE resJson(res1, 200, [success |-> code = 0, sessionId |-> req.sessionId,
                                 duration |-> duration, output |-> req.stdout,
                                 error |-> req.stderr])

\* mutant: after a nonzero exit the handler spawns the subprocess again
ProcClose_Retry(r, code) ==
    /\ \/ reqs[r].pc = "running" /\ code \in ExitCodes
       \/ reqs[r].pc = "errored" /\ code = SpawnFailCode
    /\ sessions' = OnCloseDb(sessions, reqs[r], code)
    /\ reqs' = [reqs EXCEPT ![r] =
                   IF code = 0
                   THEN [@ EXCEPT !.pc = "done", !.exitCode = Some(code),
                                  !.res = OnCloseRes(sessions, reqs[r], code)]
                   ELSE [@ EXCEPT !.pc = "running", !.exitCode = Some(code),
                                  !.startTime = now]]
    /\ UNCHANGED <<client, swarm_templates, credentials, now, workers, mems, memory_operations, node, agent_metrics>>

\* a subprocess that ran exits with one of ExitCodes; after a failed spawn
\* node may still emit 'close', with SpawnFailCode
ProcClose(r, code) ==
    /\ \/ reqs[r].pc = "running" /\ code \in ExitCodes
       \/ reqs[r].pc = "errored" /\ code = SpawnFailCode
    /\ sessions' = OnCloseDb(sessions, reqs[r], code)
    /\ reqs' = [reqs EXCEPT ![r] = [@ EXCEPT !.pc = "done", !.exitCode = Some(code),
                                            !.res = OnCloseRes(sessions, reqs[r], code)]]
    /\ UNCHANGED <<client, swarm_templates, credentials, now, workers, mems, memory_operations, node, agent_metrics>>

(* claudeFlowProcess.on('error'): the store after the handler *)
OnErrorDb(db, req, message) ==
    updateSwarmStatus(db, req.sessionId, "failed", Some(message))

\* mutant: the error handler does not end the stream
OnErrorRes_NoEnd(db, req, message) ==
    LET db1 == OnErrorDb(db, req, message)
        res1 == sendEvent(req.res, req.streaming, "error",
                          [message |-> message, sessionId |-> req.sessionId], db1)
    IN  IF req.streaming
        THEN res1
        ELSE resJson(res1, 500, [error |-> <<"Failed to execute swarm">>,
                                 details |-> message])

\* mutant: the error handler answers without setting the status code
OnErrorRes_Status200(db, req, message) ==
    LET db1 == OnErrorDb(db, req, message)
        res1 == sendEvent(req.res, req.streaming, "error",
                          [message |-> message, sessionId |-> req.sessionId], db1)
    IN  IF req.streaming
        THEN resEnd(res1)
        ELSE resJson(res1, 200, [error |-> <<"Failed to execute swarm">>,
                                 details |-> message])

(* claudeFlowProcess.on('error'): the response after the handler *)
OnErrorRes(db, req, message) ==
    LET db1 == OnErrorDb(db, req, message)
        res1 == sendEvent(req.res, req.streaming, "error",
                          [message |-> message, sessionId |-> req.sessionId], db1)
    IN  IF req.streaming
        THEN resEnd(res1)
        ELSE resJson(res1, 500, [error |-> <<"Failed to execute swarm">>,
                                 details |-> message])

\* the spawn failed: 'error' is emitted before the subprocess wrote anything
ProcError(r) ==
    /\ reqs[r].pc = "running"
    /\ reqs[r].chunks = <<>>
    /\ sessions' = OnErrorDb(sessions, reqs[r], SpawnErrMsg)
    /\ reqs' = [reqs EXCEPT ![r] = [@ EXCEPT !.pc = "errored",
                                            !.res = OnErrorRes(sessions, reqs[r], SpawnErrMsg)]]
    /\ UNCHANGED <<client, swarm_templates, credentials, now, workers, mems, memory_operations, node, agent_metrics>>

\* swarmDb.getSwarmSessions before ORDER BY and LIMIT: the identifiers of the
\* rows of the user, of one project when projectName is given ("" is none)
SessionsOfUser(db, userId, projectName) ==
    {s \in DOMAIN db : /\ db[s].user_id = userId
                       /\ projectName # "" => db[s].project_name = projectName}

\* swarmDb.getWorkers before ORDER BY: the rows of the session with that id
WorkersOfSession(rows, swarmSessionId) ==
    {i \in DOMAIN rows : rows[i].swarm_session_id = swarmSessionId}

(* GET /swarm/session/:sessionId: what the handler answers; the handler does
   not read req.user *)
SessionDetailsReply(db, rows, sessionId) ==
    IF getSwarmSession(db, sessionId) = Null
    THEN [statusCode |-> 404, body |-> [error |-> "Swarm session not found"]]
    ELSE LET session == getSwarmSession(db, sessionId)[1]
         IN  [statusCode |-> 200,
              body |-> [success |-> TRUE, session |-> session,
                        workerCount |-> Cardinality(WorkersOfSession(rows, session.id))]]

\* mutant: the handler does not look the session up
AbortReply_NoLookup(db, sessionId) ==
    [statusCode |-> 200,
     body |-> [success |-> TRUE, sessionId |-> sessionId, status |-> "aborted"]]

(* POST /swarm/abort/:sessionId: what the handler answers *)
AbortReply(db, sessionId) ==
    IF getSwarmSession(db, sessionId) = Null
    THEN [statusCode |-> 404, body |-> [error |-> "Swarm session not found"]]
    ELSE [statusCode |-> 200,
          body |-> [success |-> TRUE, sessionId |-> sessionId, status |-> "aborted"]]

(* POST /swarm/abort/:sessionId: the store after the handler *)
AbortDb(db, sessionId) ==
    IF getSwarmSession(db, sessionId) = Null
    THEN db
    ELSE updateSwarmStatus(db, sessionId, "aborted", Null)

AbortSwarm(sessionId) ==
    /\ sessions' = AbortDb(sessions, sessionId)
    /\ UNCHANGED <<client, swarm_templates, credentials, reqs, now, workers, mems, memory_operations, node, agent_metrics>>

(* credentialsDb.createCredential: the newest active claude_api_key *)
CreateCredential(userId, key) ==
    /\ credentials[userId] # Some(key)
    /\ credentials' = [credentials EXCEPT ![userId] = Some(key)]
    /\ UNCHANGED <<client, swarm_templates, sessions, reqs, now, workers, mems, memory_operations, node, agent_metrics>>

(* credentialsDb.toggleCredential(.., false) / deleteCredential *)
DropCredential(userId) ==
    /\ credentials[userId] # Null
    /\ credentials' = [credentials EXCEPT ![userId] = Null]
    /\ UNCHANGED <<client, swarm_templates, sessions, reqs, now, workers, mems, memory_operations, node, agent_metrics>>

Tick ==
    /\ now < MaxClock
    /\ now' = now + 1
    /\ UNCHANGED <<client, swarm_templates, sessions, credentials, reqs, workers, mems, memory_operations, node, agent_metrics>>

\* Spec follows one execute request of the default user (req.user?.id || 1),
\* with the default swarm type, over all sessions.
SoloUsers == {1}
SoloReqs == {1}
SoloSwarmTypes == {"quick"}

Next ==
    \/ \E u \in SoloUsers, s \in SessionIds \cap {NewSessionId(sessions)},
          pn \in ProjectNames, pp \in ProjectPaths,
          td \in TaskDescriptions, st \in SoloSwarmTypes :
            CreateSwarm(u, s, pn, pp, td, st)
    \/ \E r \in SoloReqs, u \in SoloUsers, s \in SessionIds \cup {StrangerId, MissingId},
          td \in TaskDescriptions, st \in SoloSwarmTypes, streaming \in BOOLEAN :
            ExecuteSwarm(r, u, s, td, st, streaming)
    \/ \E r \in SoloReqs : ProcStdout(r)
    \/ \E r \in SoloReqs : ProcStderr(r)
    \/ \E r \in SoloReqs, code \in ExitCodes \cup {SpawnFailCode} : ProcClose(r, code)
    \/ \E r \in SoloReqs : ProcError(r)
    \/ \E s \in SessionIds \cup {StrangerId} : AbortSwarm(s)
    \/ \E u \in SoloUsers, k \in ApiKeys : CreateCredential(u, k)
    \/ \E u \in SoloUsers : DropCredential(u)
    \/ Tick

Spec == Init /\ [][Next]_vars

(* PairSpec: two execute requests of the default user run at the same time
   over two sessions that were created before, with a credential configured;
   their subprocess callbacks interleave freely. *)
PairIds == {1, 2}

RECURSIVE CreatedSessions(_)
\* the store after the default user created sessions 1..n
CreatedSessions(n) ==
    IF n = 0 THEN <<>>
    ELSE createSwarmSession(CreatedSessions(n - 1), 1, n, "acme", "/p", "quick",
                            "fix bug", [agentTypes |-> <<>>])

PairInit ==
    /\ now = 0
    /\ sessions = CreatedSessions(Cardinality(PairIds))
    /\ credentials = [u \in Users |-> IF u = 1 THEN Some("sk-1") ELSE Null]
    /\ reqs = [r \in ReqIds |-> IdleReq]
    /\ workers = <<>>
    /\ mems = [m \in MemIds |-> IdleMem]
    /\ memory_operations = <<>>
    /\ node = "up"
    /\ agent_metrics = <<>>
    /\ swarm_templates = InstalledTemplates
    /\ client = IdleClient

PairNext ==
    \/ \E r \in ReqIds, s \in PairIds, streaming \in BOOLEAN :
            ExecuteSwarm(r, 1, s, "fix bug", "quick", streaming)
    \/ \E r \in ReqIds : ProcStdout(r)
    \/ \E r \in ReqIds : ProcStderr(r)
    \/ \E r \in ReqIds, code \in ExitCodes \cup {SpawnFailCode} : ProcClose(r, code)
    \/ \E r \in ReqIds : ProcError(r)

PairSpec == PairInit /\ [][PairNext]_vars

(* the consumer of an execute request closes its connection while the
   subprocess runs: the handler registers no listener on req or res, so the
   only effect is that later frames reach nobody *)
Disconnect(r) ==
    /\ reqs[r].pc = "running"
    /\ reqs[r].res.connected
    /\ reqs' = [reqs EXCEPT ![r].res.connected = FALSE]
    /\ UNCHANGED <<client, swarm_templates, sessions, credentials, now, workers, mems, memory_operations, node, agent_metrics>>

(* DropSpec: one execute request on a session created before, whose consumer
   may disconnect at any moment of the run *)
DropInit ==
    /\ now = 0
    /\ sessions = CreatedSessions(1)
    /\ credentials = [u \in Users |-> IF u = 1 THEN Some("sk-1") ELSE Null]
    /\ reqs = [r \in ReqIds |-> IdleReq]
    /\ workers = <<>>
    /\ mems = [m \in MemIds |-> IdleMem]
    /\ memory_operations = <<>>
    /\ node = "up"
    /\ agent_metrics = <<>>
    /\ swarm_templates = InstalledTemplates
    /\ client = IdleClient

DropNext ==
    \/ \E streaming \in BOOLEAN : ExecuteSwarm(1, 1, 1, "fix bug", "quick", streaming)
    \/ ProcStdout(1)
    \/ ProcStderr(1)
    \/ \E code \in ExitCodes \cup {SpawnFailCode} : ProcClose(1, code)
    \/ ProcError(1)
    \/ Disconnect(1)
    \/ Tick

DropSpec == DropInit /\ [][DropNext]_vars

(* LiveSpec: one execute request on a session created before, where the exit
   of the subprocess and the 'close' listener are two steps: the subprocess
   exits when it chooses to, and node then runs the listener it queued.  No
   step of the handler is driven by the clock: there is no timer. *)
SubprocessExits(r, code) ==
    /\ reqs[r].pc = "running"
    /\ reqs' = [reqs EXCEPT ![r] = [@ EXCEPT !.pc = "closing", !.exitCode = Some(code)]]
    /\ UNCHANGED <<client, swarm_templates, sessions, credentials, now, workers, mems, memory_operations, node, agent_metrics>>

\* claudeFlowProcess.on('close') run by the event loop for the queued event
DispatchClose(r) ==
    /\ reqs[r].pc = "closing"
    /\ sessions' = OnCloseDb(sessions, reqs[r], reqs[r].exitCode[1])
    /\ reqs' = [reqs EXCEPT ![r] =
                   [@ EXCEPT !.pc = "done",
                             !.res = OnCloseRes(sessions, reqs[r], reqs[r].exitCode[1])]]
    /\ UNCHANGED <<client, swarm_templates, credentials, now, workers, mems, memory_operations, node, agent_metrics>>

LiveNext ==
    \/ \E streaming \in BOOLEAN : ExecuteSwarm(1, 1, 1, "fix bug", "quick", streaming)
    \/ ProcStdout(1)
    \/ ProcStderr(1)
    \/ \E code \in ExitCodes : SubprocessExits(1, code)
    \/ DispatchClose(1)
    \/ ProcError(1)
    \/ ProcClose(1, SpawnFailCode)
    \/ Disconnect(1)
    \/ Tick

\* the event loop runs every listener whose event is queued
LiveSpec == DropInit /\ [][LiveNext]_vars /\ WF_vars(DispatchClose(1))

(***************************** workers **************************************)
WorkerIds == {"w1", "w2"}
WorkerStatuses == {"pending", "active", "completed", "failed"}
TokenCounts == {0, 1, 2}

\* column defaults of swarm_workers for the columns the INSERT leaves out
NewWorker(id, swarmSessionId, workerId, agentType, agentName, task, metadata) ==
    [ id               |-> id,
      swarm_session_id |-> swarmSessionId,
      worker_id        |-> workerId,
      agent_type       |-> agentType,
      agent_name       |-> agentName,
      task             |-> task,
      status           |-> "pending",
      started_at       |-> Null,
      completed_at     |-> Null,
      input_tokens     |-> 0,
      output_tokens    |-> 0,
      total_tokens     |-> 0,
      result           |-> Null,
      error_message    |-> Null,
      metadata         |-> JsonStringify(metadata) ]

\* FOREIGN KEY (swarm_session_id) REFERENCES swarm_sessions(id), with
\* foreign_keys = ON: the INSERT throws when no session has that id
createWorkerThrows(db, swarmSessionId) ==
    ~\E s \in DOMAIN db : db[s].id = swarmSessionId

createWorker(rows, swarmSessionId, workerId, agentType, agentName, task, metadata) ==
    Append(rows, NewWorker(Len(rows) + 1, swarmSessionId, workerId, agentType,
                           agentName, task, metadata))

\* COALESCE(started_at, ?)
Coalesce(value, other) == IF value # Null THEN value ELSE other

\* mutant: started_at is written without COALESCE
updateWorkerStatus_Overwrite(rows, workerId, status, result, errorMessage) ==
    LET startedAt == IF status = "active" THEN Some(now) ELSE Null
        completedAt == IF status \in {"completed", "failed"} THEN Some(now) ELSE Null
    IN  [i \in DOMAIN rows |->
            IF rows[i].worker_id = workerId
            THEN [rows[i] EXCEPT !.status = status,
                                 !.result = result,
                                 !.error_message = errorMessage,
                                 !.started_at = startedAt,
                                 !.completed_at = completedAt]
            ELSE rows[i]]

updateWorkerStatus(rows, workerId, status, result, errorMessage) ==
    LET startedAt == IF status = "active" THEN Some(now) ELSE Null
        completedAt == IF status \in {"completed", "failed"} THEN Some(now) ELSE Null
    IN  [i \in DOMAIN rows |->
            IF rows[i].worker_id = workerId
            THEN [rows[i] EXCEPT !.status = status,
                                 !.result = result,
                                 !.error_message = errorMessage,
                                 !.started_at = Coalesce(@, startedAt),
                                 !.completed_at = completedAt]
            ELSE rows[i]]

\* mutant: the total is left as it was
updateWorkerTokens_KeepTotal(rows, workerId, inputTokens, outputTokens) ==
    [i \in DOMAIN rows |->
        IF rows[i].worker_id = workerId
        THEN [rows[i] EXCEPT !.input_tokens = inputTokens,
                             !.output_tokens = outputTokens]
        ELSE rows[i]]

updateWorkerTokens(rows, workerId, inputTokens, outputTokens) ==
    LET totalTokens == inputTokens + outputTokens
    IN  [i \in DOMAIN rows |->
            IF rows[i].worker_id = workerId
            THEN [rows[i] EXCEPT !.input_tokens = inputTokens,
                                 !.output_tokens = outputTokens,
                                 !.total_tokens = totalTokens]
            ELSE rows[i]]

(* swarmDb.createWorker; the model follows as many rows as there are worker
   identifiers, two rows of one worker_id included (the column is not unique) *)
CreateWorker(swarmSessionId, workerId) ==
    /\ Len(workers) < Cardinality(WorkerIds)
    /\ workers' = IF createWorkerThrows(sessions, swarmSessionId)
                  THEN workers
                  ELSE createWorker(workers, swarmSessionId, workerId, "coder",
                                    "Coder", "fix bug", <<>>)
    /\ UNCHANGED <<client, swarm_templates, sessions, credentials, reqs, now, mems, memory_operations, node, agent_metrics>>

(* swarmDb.updateWorkerStatus *)
SetWorkerStatus(workerId, status) ==
    /\ workers' = updateWorkerStatus(workers, workerId, status, Null, Null)
    /\ UNCHANGED <<client, swarm_templates, sessions, credentials, reqs, now, mems, memory_operations, node, agent_metrics>>

(* swarmDb.updateWorkerTokens *)
SetWorkerTokens(workerId, inputTokens, outputTokens) ==
    /\ workers' = updateWorkerTokens(workers, workerId, inputTokens, outputTokens)
    /\ UNCHANGED <<client, swarm_templates, sessions, credentials, reqs, now, mems, memory_operations, node, agent_metrics>>

(***************************** agent metrics ********************************)
(* The REAL columns avg_completion_time_ms and success_rate hold quotients of
   small integers.  They are kept as fractions in lowest terms: for the
   usage counts the model reaches, the double arithmetic of the code returns
   the correctly rounded value of the same quotient. *)
RECURSIVE GCD(_, _)
GCD(a, b) == IF b = 0 THEN a ELSE GCD(b, a % b)

Frac(n, d) == LET g == GCD(n, d) IN [num |-> n \div g, den |-> d \div g]
FracTimesInt(q, k) == Frac(q.num * k, q.den)
FracPlusInt(q, k) == Frac(q.num + k * q.den, q.den)
FracOverInt(q, k) == Frac(q.num, q.den * k)

AgentTypes == {"coder"}
\* the token counts and the completion time of one finished task
TaskTokens == {<<0, 0>>, <<1, 2>>}
CompletionTimes == {0, 2}

\* SELECT * FROM agent_metrics WHERE user_id = ? AND agent_type = ?: the
\* positions of the rows of the pair
SelectAgentMetrics(rows, userId, agentType) ==
    {i \in DOMAIN rows : rows[i].user_id = userId /\ rows[i].agent_type = agentType}

\* stmt.get(): the first row of a result
FirstOf(found) == CHOOSE i \in found : \A j \in found : i <= j

\* the row the INSERT of updateAgentMetrics writes.  The field `successes` is
\* not a column: it counts the updates that reported success, for the
\* properties to refer to.
NewMetric(id, userId, agentType, inputTokens, outputTokens, completionTimeMs, success) ==
    [ id |-> id, user_id |-> userId, agent_type |-> agentType,
      usage_count |-> 1,
      total_input_tokens |-> inputTokens,
      total_output_tokens |-> outputTokens,
      total_tokens |-> inputTokens + outputTokens,
      avg_completion_time_ms |-> Frac(completionTimeMs, 1),
      success_rate |-> IF success THEN Frac(1, 1) ELSE Frac(0, 1),
      last_used |-> now, updated_at |-> now,
      successes |-> IF success THEN 1 ELSE 0 ]

\* mutant: every update inserts a row, without looking for the row of the pair
updateAgentMetrics_AlwaysInsert(rows, userId, agentType, inputTokens, outputTokens, completionTimeMs, success) ==
    Append(rows, NewMetric(Len(rows) + 1, userId, agentType, inputTokens,
                           outputTokens, completionTimeMs, success))

\* mutant: the old rate is not weighted by the old usage count
updateAgentMetrics_Unweighted(rows, userId, agentType, inputTokens, outputTokens, completionTimeMs, success) ==
    LET totalTokens == inputTokens + outputTokens
        found == SelectAgentMetrics(rows, userId, agentType)
    IN  IF found # {}
        THEN LET existing == rows[FirstOf(found)]
                 newUsageCount == existing.usage_count + 1
                 newTotalInputTokens == existing.total_input_tokens + inputTokens
                 newTotalOutputTokens == existing.total_output_tokens + outputTokens
                 newTotalTokens == existing.total_tokens + totalTokens
                 newAvgTime == FracOverInt(FracPlusInt(FracTimesInt(
                                   existing.avg_completion_time_ms, existing.usage_count),
                                   completionTimeMs), newUsageCount)
                 successCount == FracPlusInt(existing.success_rate,
                                             IF success THEN 1 ELSE 0)
                 newSuccessRate == FracOverInt(successCount, newUsageCount)
             IN  [i \in DOMAIN rows |->
                    IF i \in found
                    THEN [rows[i] EXCEPT
                            !.usage_count = newUsageCount,
                            !.total_input_tokens = newTotalInputTokens,
                            !.total_output_tokens = newTotalOutputTokens,
                            !.total_tokens = newTotalTokens,
                            !.avg_completion_time_ms = newAvgTime,
                            !.success_rate = newSuccessRate,
                            !.last_used = now,
                            !.updated_at = now,
                            !.successes = existing.successes + (IF success THEN 1 ELSE 0)]
                    ELSE rows[i]]
        ELSE Append(rows, NewMetric(Len(rows) + 1, userId, agentType, inputTokens,
                                    outputTokens, completionTimeMs, success))

(* swarmDb.updateAgentMetrics *)
updateAgentMetrics(rows, userId, agentType, inputTokens, outputTokens, completionTimeMs, success) ==
    LET totalTokens == inputTokens + outputTokens
        found == SelectAgentMetrics(rows, userId, agentType)
    IN  IF found # {}
        THEN LET existing == rows[FirstOf(found)]
                 newUsageCount == existing.usage_count + 1
                 newTotalInputTokens == existing.total_input_tokens + inputTokens
                 newTotalOutputTokens == existing.total_output_tokens + outputTokens
                 newTotalTokens == existing.total_tokens + totalTokens
                 newAvgTime == FracOverInt(FracPlusInt(FracTimesInt(
                                   existing.avg_completion_time_ms, existing.usage_count),
                                   completionTimeMs), newUsageCount)
                 successCount == FracPlusInt(FracTimesInt(existing.success_rate,
                                                          existing.usage_count),
                                             IF success THEN 1 ELSE 0)
                 newSuccessRate == FracOverInt(successCount, newUsageCount)
             IN  [i \in DOMAIN rows |->
                    IF i \in found
                    THEN [rows[i] EXCEPT
                            !.usage_count = newUsageCount,
                            !.total_input_tokens = newTotalInputTokens,
                            !.total_output_tokens = newTotalOutputTokens,
                            !.total_tokens = newTotalTokens,
                            !.avg_completion_time_ms = newAvgTime,
                            !.success_rate = newSuccessRate,
                            !.last_used = now,
                            !.updated_at = now,
                            !.successes = existing.successes + (IF success THEN 1 ELSE 0)]
                    ELSE rows[i]]
        ELSE Append(rows, NewMetric(Len(rows) + 1, userId, agentType, inputTokens,
                                    outputTokens, completionTimeMs, success))

(* swarmDb.updateAgentMetrics, for at most MaxUpdates updates of one pair *)
UpdateAgentMetrics(userId, agentType, tokens, completionTimeMs, success) ==
    /\ \A i \in SelectAgentMetrics(agent_metrics, userId, agentType) :
           agent_metrics[i].usage_count < MaxUpdates
    /\ agent_metrics' = updateAgentMetrics(agent_metrics, userId, agentType, tokens[1],
                                           tokens[2], completionTimeMs, success)
    /\ UNCHANGED <<client, swarm_templates, sessions, credentials, reqs, now, workers, mems, memory_operations, node>>

(* MetricSpec: the agent metrics of two users, updated in any order, at one
   instant of the clock *)
MetricNext ==
    \/ \E u \in Users, a \in AgentTypes, tokens \in TaskTokens, t \in CompletionTimes,
          success \in BOOLEAN : UpdateAgentMetrics(u, a, tokens, t, success)

MetricSpec == Init /\ [][MetricNext]_vars

(***************************** memory routes ********************************)
Namespaces == {"", "ns"}
Keys == {"", "k"}
Contents == {"", "c"}
Queries == {"", "q"}
OperationTypes == {"query", "vector-search"}
\* process.cwd(), the default of projectPath
ServerCwd == "/srv"

\* a text the memory CLI prints that is a JSON array of two results
JsonArrayText == <<"[\"a\",\"b\"]">>
\* what a memory subprocess may write as its i-th chunk on stdout
MemStdoutTexts(i) == {JsonArrayText, ChunkText(i)}

\* JSON.parse(stdout) in the query handler: the results and their count;
\* a text that does not parse is one plain-text result
ParseResults(code, stdout) ==
    IF code = 0 /\ stdout # <<>>
    THEN IF stdout = JsonArrayText
         THEN [results |-> <<"a", "b">>, resultCount |-> 2]
         ELSE [results |-> stdout, resultCount |-> 1]
    ELSE [results |-> <<>>, resultCount |-> 0]

\* stderr || null
OrNull(text) == IF text = <<>> THEN Null ELSE Some(text)

logMemoryOperation(log, userId, operationType, namespace, keyName, queryText, resultCount, latencyMs, success, errorMessage) ==
    Append(log,
        [ id               |-> Len(log) + 1,
          user_id          |-> userId,
          swarm_session_id |-> Null,
          operation_type   |-> operationType,
          namespace        |-> namespace,
          key_name         |-> keyName,
          query_text       |-> queryText,
          result_count     |-> resultCount,
          latency_ms       |-> latencyMs,
          success          |-> IF success THEN 1 ELSE 0,
          error_message    |-> errorMessage,
          created_at       |-> now,
          metadata         |-> JsonStringify(<<>>) ])

\* the early returns of POST /memory/store
MemoryStoreEarlyReply(userId, namespace, key, content) ==
    IF namespace = "" \/ key = "" \/ content = ""
    THEN Some([statusCode |-> 400, body |-> [error |-> "Missing required fields"]])
    ELSE IF getActiveCredential(userId) = Null
    THEN Some([statusCode |-> 400, body |-> [error |-> "Claude API key not configured"]])
    ELSE Null

\* the early returns of POST /memory/query
MemoryQueryEarlyReply(userId, namespace, query) ==
    IF namespace = "" \/ query = ""
    THEN Some([statusCode |-> 400, body |-> [error |-> "Missing required fields"]])
    ELSE IF getActiveCredential(userId) = Null
    THEN Some([statusCode |-> 400, body |-> [error |-> "Claude API key not configured"]])
    ELSE Null

(* POST /memory/store: the handler up to the spawn *)
MemoryStore(m, userId, namespace, key, content) ==
    /\ node = "up"
    /\ mems[m].pc = "idle"
    /\ mems' = [mems EXCEPT ![m] =
                   IF MemoryStoreEarlyReply(userId, namespace, key, content) # Null
                   THEN mems[m]
                   ELSE [IdleMem EXCEPT
                           !.pc = "running", !.route = "store", !.userId = userId,
                           !.operationType = "store", !.namespace = namespace,
                           !.key = key, !.startTime = now,
                           !.spawn = Some([args |-> <<"claude-flow@alpha", "memory",
                                                      "store", key, content>>,
                                           cwd |-> ServerCwd,
                                           MEMORY_NAMESPACE |-> namespace,
                                           ANTHROPIC_API_KEY |->
                                               getActiveCredential(userId)[1]])]]
    /\ UNCHANGED <<client, swarm_templates, sessions, credentials, reqs, now, workers, memory_operations, node, agent_metrics>>

(* POST /memory/query: the handler up to the spawn *)
MemoryQuery(m, userId, namespace, query, operationType) ==
    /\ node = "up"
    /\ mems[m].pc = "idle"
    /\ mems' = [mems EXCEPT ![m] =
                   IF MemoryQueryEarlyReply(userId, namespace, query) # Null
                   THEN mems[m]
                   ELSE LET commandType == IF operationType = "vector-search"
                                           THEN "vector-search" ELSE "query"
                        IN [IdleMem EXCEPT
                           !.pc = "running", !.route = "query", !.userId = userId,
                           !.operationType = operationType, !.namespace = namespace,
                           !.query = query, !.startTime = now,
                           !.spawn = Some([args |-> <<"claude-flow@alpha", "memory",
                                                      commandType, query>>,
                                           cwd |-> ServerCwd,
                                           MEMORY_NAMESPACE |-> namespace,
                                           ANTHROPIC_API_KEY |->
                                               getActiveCredential(userId)[1]])]]
    /\ UNCHANGED <<client, swarm_templates, sessions, credentials, reqs, now, workers, memory_operations, node, agent_metrics>>

(* memoryProcess.stdout.on('data') *)
MemStdout(m, text) ==
    /\ node = "up"
    /\ mems[m].pc = "running"
    /\ Len(mems[m].chunks) < MaxChunks
    /\ mems' = [mems EXCEPT ![m].stdout = @ \o text,
                            ![m].chunks = Append(@, [channel |-> "stdout", text |-> text])]
    /\ UNCHANGED <<client, swarm_templates, sessions, credentials, reqs, now, workers, memory_operations, node, agent_metrics>>

(* memoryProcess.stderr.on('data') *)
MemStderr(m) ==
    /\ node = "up"
    /\ mems[m].pc = "running"
    /\ Len(mems[m].chunks) < MaxChunks
    /\ LET text == ChunkText(Len(mems[m].chunks) + 1)
       IN  mems' = [mems EXCEPT ![m].stderr = @ \o text,
                                ![m].chunks = Append(@, [channel |-> "stderr", text |-> text])]
    /\ UNCHANGED <<client, swarm_templates, sessions, credentials, reqs, now, workers, memory_operations, node, agent_metrics>>

\* mutant: the close handlers log the operations that succeeded only
MemCloseLog_OnlySuccess(log, mem, code) ==
    LET latency == now - mem.startTime
    IN  IF code # 0 THEN log
        ELSE IF mem.route = "store"
        THEN logMemoryOperation(log, mem.userId, "store", mem.namespace, Some(mem.key),
                 Null, 0, latency, code = 0, OrNull(mem.stderr))
        ELSE logMemoryOperation(log, mem.userId, mem.operationType, mem.namespace, Null,
                 Some(mem.query), ParseResults(code, mem.stdout).resultCount, latency,
                 code = 0, OrNull(mem.stderr))

(* memoryProcess.on('close') of either route: the log after the handler *)
MemCloseLog(log, mem, code) ==
    LET latency == now - mem.startTime
    IN  IF mem.route = "store"
        THEN logMemoryOperation(log, mem.userId, "store", mem.namespace, Some(mem.key),
                 Null, 0, latency, code = 0, OrNull(mem.stderr))
        ELSE logMemoryOperation(log, mem.userId, mem.operationType, mem.namespace, Null,
                 Some(mem.query), ParseResults(code, mem.stdout).resultCount, latency,
                 code = 0, OrNull(mem.stderr))

(* memoryProcess.on('close') of either route: the response after the handler *)
MemCloseRes(mem, code) ==
    LET latency == now - mem.startTime
    IN  IF mem.route = "store"
        THEN IF code = 0
             THEN resJson(mem.res, 200, [success |-> TRUE, namespace |-> mem.namespace,
                                         key |-> mem.key, latency |-> latency,
                                         output |-> mem.stdout])
             ELSE resJson(mem.res, 500, [error |-> "Failed to store memory",
                                         details |-> mem.stderr, latency |-> latency])
        ELSE IF code = 0
             THEN resJson(mem.res, 200,
                      [success |-> TRUE, namespace |-> mem.namespace, query |-> mem.query,
                       results |-> ParseResults(code, mem.stdout).results,
                       resultCount |-> ParseResults(code, mem.stdout).resultCount,
                       latency |-> latency])
             ELSE resJson(mem.res, 500, [error |-> "Failed to query memory",
                                         details |-> mem.stderr, latency |-> latency])

\* a memory subprocess that ran exits with one of ExitCodes; after a failed
\* spawn that the server survived, node emits 'close' with SpawnFailCode
MemClose(m, code) ==
    /\ node = "up"
    /\ \/ mems[m].pc = "running" /\ code \in ExitCodes
       \/ mems[m].pc = "errored" /\ code = SpawnFailCode
    /\ memory_operations' = MemCloseLog(memory_operations, mems[m], code)
    /\ mems' = [mems EXCEPT ![m].pc = "done", ![m].exitCode = Some(code),
                            ![m].res = MemCloseRes(mems[m], code)]
    /\ UNCHANGED <<client, swarm_templates, sessions, credentials, reqs, now, workers, node, agent_metrics>>

\* what becomes of the server when an exception reaches the top of the event
\* loop: the process exits, unless an 'uncaughtException' listener was
\* installed by the entry point of the server, which is not part of the
\* routes module
UncaughtOutcomes == {"crashed", "up"}

(* the spawn of a memory subprocess failed: the child emits 'error', and the
   memory handlers register no 'error' listener on it, so the emit throws *)
MemError(m, outcome) ==
    /\ node = "up"
    /\ mems[m].pc = "running"
    /\ mems[m].chunks = <<>>
    /\ mems' = [mems EXCEPT ![m].pc = "errored"]
    /\ node' = outcome
    /\ UNCHANGED <<client, swarm_templates, sessions, credentials, reqs, now, workers, memory_operations, agent_metrics>>

(* MemSpec: the memory requests of the default user, with a credential
   configured.  A subprocess that was spawned ends: node delivers its 'close'
   (or its 'error') as long as the server runs. *)
MemInit ==
    /\ now = 0
    /\ sessions = <<>>
    /\ credentials = [u \in Users |-> IF u = 1 THEN Some("sk-1") ELSE Null]
    /\ reqs = [r \in ReqIds |-> IdleReq]
    /\ workers = <<>>
    /\ mems = [m \in MemIds |-> IdleMem]
    /\ memory_operations = <<>>
    /\ node = "up"
    /\ agent_metrics = <<>>
    /\ swarm_templates = InstalledTemplates
    /\ client = IdleClient

MemEnds(m) ==
    \/ \E code \in ExitCodes \cup {SpawnFailCode} : MemClose(m, code)
    \/ \E outcome \in UncaughtOutcomes : MemError(m, outcome)

MemNext ==
    \/ \E m \in MemIds, ns \in Namespaces, k \in Keys, c \in Contents :
            MemoryStore(m, 1, ns, k, c)
    \/ \E m \in MemIds, ns \in Namespaces, q \in Queries, ot \in OperationTypes :
            MemoryQuery(m, 1, ns, q, ot)
    \/ \E m \in MemIds : \E text \in MemStdoutTexts(Len(mems[m].chunks) + 1) :
            MemStdout(m, text)
    \/ \E m \in MemIds : MemStderr(m)
    \/ \E m \in MemIds, code \in ExitCodes \cup {SpawnFailCode} : MemClose(m, code)
    \/ \E m \in MemIds, outcome \in UncaughtOutcomes : MemError(m, outcome)
    \/ Tick

MemSpec == MemInit /\ [][MemNext]_vars /\ \A m \in MemIds : WF_vars(MemEnds(m))

(* LogSpec: two memory requests of the default user, a store and a query or
   two of a kind, whose subprocesses run at the same time and end in either
   order, at one instant of the clock; every route of the module that writes
   memory_operations is here *)
LogMemIds == {1, 2}

LogInit ==
    /\ now = 0
    /\ sessions = <<>>
    /\ credentials = [u \in Users |-> IF u = 1 THEN Some("sk-1") ELSE Null]
    /\ reqs = [r \in ReqIds |-> IdleReq]
    /\ workers = <<>>
    /\ mems = [m \in LogMemIds |-> IdleMem]
    /\ memory_operations = <<>>
    /\ node = "up"
    /\ agent_metrics = <<>>
    /\ swarm_templates = InstalledTemplates
    /\ client = IdleClient

LogNext ==
    \/ \E m \in LogMemIds : MemoryStore(m, 1, "ns", "k", "c")
    \/ \E m \in LogMemIds, ot \in OperationTypes : MemoryQuery(m, 1, "ns", "q", ot)
    \/ \E m \in LogMemIds : \E text \in MemStdoutTexts(Len(mems[m].chunks) + 1) :
            MemStdout(m, text)
    \/ \E m \in LogMemIds : MemStderr(m)
    \/ \E m \in LogMemIds, code \in ExitCodes \cup {SpawnFailCode} : MemClose(m, code)
    \/ \E m \in LogMemIds, outcome \in UncaughtOutcomes : MemError(m, outcome)

LogSpec == LogInit /\ [][LogNext]_vars

(* swarmDb.updateSwarmStatus called with any identifier and any status *)
SetStatus(sessionId, status, errorMessage) ==
    /\ sessions' = updateSwarmStatus(sessions, sessionId, status, errorMessage)
    /\ UNCHANGED <<client, swarm_templates, credentials, reqs, now, workers, mems, memory_operations, node, agent_metrics>>

(* StoreSpec: the session store used through its own interface: sessions are
   created with whatever identifier randomUUID returns, an identifier in use
   included, and their status is set in any order. *)
StoreIds == {1, 2}
StoreProjectNames == {"acme", "zeta"}
StoreErrors == {Null, Some(<<"boom">>)}

StoreNext ==
    \/ \E s \in StoreIds, pn \in StoreProjectNames :
            CreateSwarm(1, s, pn, "/p", "fix bug", "quick")
    \/ \E s \in StoreIds \cup {StrangerId}, st \in Statuses :
          \E e \in (IF st = "failed" THEN StoreErrors ELSE {Null}) :
            SetStatus(s, st, e)
    \/ Tick

StoreSpec == Init /\ [][StoreNext]_vars

(* GET /swarm/sessions.  The query string carries limit as a text, or not at
   all; parseInt reads the leading integer of the text. *)
LimitTexts == {"-1", "0", "1", "2", "1.9"}
DefaultLimit == 50

ParseInt(text) ==
    CASE text = "-1" -> 0 - 1
      [] text = "0" -> 0
      [] text = "1" -> 1
      [] text = "2" -> 2
      [] text = "1.9" -> 1

\* const { projectName, limit = 50 } = req.query; parseInt(limit)
LimitOf(limitQuery) == IF limitQuery = Null THEN DefaultLimit ELSE ParseInt(limitQuery[1])

\* LIMIT ?: a negative limit is no limit
LimitedCount(count, limit) ==
    IF limit < 0 \/ limit > count THEN count ELSE limit

(* swarmDb.getSwarmSessions: the results the query can return.  ORDER BY
   created_at DESC leaves the order of rows of the same instant open, and with
   it the choice of the rows that LIMIT keeps among them. *)
getSwarmSessions(db, userId, projectName, limit) ==
    LET matching == SessionsOfUser(db, userId, projectName)
        n == LimitedCount(Cardinality(matching), limit)
        orders == {f \in [1..n -> matching] :
                      /\ \A i, j \in 1..n : i < j =>
                            /\ f[i] # f[j]
                            /\ db[f[i]].created_at >= db[f[j]].created_at
                      /\ \A s \in matching : \A i \in 1..n :
                            (\A j \in 1..n : f[j] # s)
                                => db[f[i]].created_at >= db[s].created_at}
    IN  {[i \in 1..n |-> [db[f[i]] EXCEPT !.metadata = JsonParse(@)]] : f \in orders}

\* what GET /swarm/sessions can answer
SessionsListReply(db, userId, projectName, limitQuery) ==
    {[statusCode |-> 200,
      body |-> [success |-> TRUE, sessions |-> rows, count |-> Len(rows)]] :
        rows \in getSwarmSessions(db, userId, projectName, LimitOf(limitQuery))}

(* ListSpec: sessions of two users and two projects, created at any instant *)
ListIds == {1, 2, 3}

ListNext ==
    \/ \E u \in Users, s \in ListIds, pn \in StoreProjectNames :
            CreateSwarm(u, s, pn, "/p", "fix bug", "quick")
    \/ Tick

ListSpec == Init /\ [][ListNext]_vars

(* TemplateSpec: a database file that is created by the first start of the
   server and kept over its restarts; between the starts users create
   templates of their own *)
TemplateNames == {"", "mine"}

(* initializeDatabase(), once per start of the server *)
InitializeDatabase ==
    /\ Cardinality(getSwarmTemplates(swarm_templates, Null, TRUE))
          < MaxStarts * Len(SystemTemplates)
    /\ swarm_templates' = ExecSwarmSchema(swarm_templates, now)
    /\ UNCHANGED <<client, sessions, credentials, reqs, now, workers, mems, memory_operations, node, agent_metrics>>

(* POST /templates, on a server that has started *)
CreateTemplate(userId, templateName, swarmType) ==
    /\ swarm_templates # <<>>
    /\ Cardinality(getSwarmTemplates(swarm_templates, Null, TRUE)) + MaxCustom
          > Len(swarm_templates)
    /\ swarm_templates' =
          IF templateName = "" \/ swarmType = ""
          THEN swarm_templates
          ELSE createSwarmTemplate(swarm_templates, userId, templateName, swarmType, Null)
    /\ UNCHANGED <<client, sessions, credentials, reqs, now, workers, mems, memory_operations, node, agent_metrics>>

TemplateInit ==
    /\ now = 0
    /\ sessions = <<>>
    /\ credentials = [u \in Users |-> Null]
    /\ reqs = [r \in ReqIds |-> IdleReq]
    /\ workers = <<>>
    /\ mems = [m \in MemIds |-> IdleMem]
    /\ memory_operations = <<>>
    /\ node = "up"
    /\ agent_metrics = <<>>
    /\ swarm_templates = <<>>
    /\ client = IdleClient

TemplateNext ==
    \/ InitializeDatabase
    \/ \E u \in Users, tn \in TemplateNames, st \in SwarmTypes : CreateTemplate(u, tn, st)
    \/ Tick

TemplateSpec == TemplateInit /\ [][TemplateNext]_vars

(* ClientSpec: executeSwarm reads a streaming response whose frames the server
   wrote; the transport hands the bytes over in chunks of any length *)
RECURSIVE EventSeqs(_)
\* the responses of at most n frames
EventSeqs(n) ==
    IF n = 0 THEN {<<>>}
    ELSE EventSeqs(n - 1)
           \cup {Append(events, [type |-> t]) :
                    events \in {e \in EventSeqs(n - 1) : Len(e) = n - 1}, t \in EventTypes}

(* one turn of the while loop: reader.read() resolves with the next k
   characters, the chunk is split into lines and every line is handled *)
ReadChunk(k) ==
    /\ client.pc = "reading"
    /\ k \in 1..Len(client.wire)
    /\ client' = [client EXCEPT
                     !.wire = SubSeq(@, k + 1, Len(@)),
                     !.received = @ \o OnLines(SplitLines(SubSeq(client.wire, 1, k)))]
    /\ UNCHANGED <<sessions, credentials, reqs, now, workers, mems, memory_operations, node, agent_metrics, swarm_templates>>

(* reader.read() resolves with done: the loop ends *)
ReadDone ==
    /\ client.pc = "reading"
    /\ client.wire = <<>>
    /\ client' = [client EXCEPT !.pc = "done"]
    /\ UNCHANGED <<sessions, credentials, reqs, now, workers, mems, memory_operations, node, agent_metrics, swarm_templates>>

ClientInit ==
    /\ now = 0
    /\ sessions = <<>>
    /\ credentials = [u \in Users |-> Null]
    /\ reqs = [r \in ReqIds |-> IdleReq]
    /\ workers = <<>>
    /\ mems = [m \in MemIds |-> IdleMem]
    /\ memory_operations = <<>>
    /\ node = "up"
    /\ agent_metrics = <<>>
    /\ swarm_templates = InstalledTemplates
    /\ client \in {[pc |-> "reading", frames |-> events, wire |-> WireOf(events),
                    received |-> <<>>] : events \in EventSeqs(MaxFrames) \ {<<>>}}

ClientNext ==
    \/ \E k \in 1..(MaxFrames * Len(FrameText([type |-> "status"]))) : ReadChunk(k)
    \/ ReadDone

ClientSpec == ClientInit /\ [][ClientNext]_vars

(* WorkerSpec: the worker store used through its own interface, over one
   session created before *)
WorkerInit ==
    /\ now = 0
    /\ sessions = CreatedSessions(1)
    /\ credentials = [u \in Users |-> Null]
    /\ reqs = [r \in ReqIds |-> IdleReq]
    /\ workers = <<>>
    /\ mems = [m \in MemIds |-> IdleMem]
    /\ memory_operations = <<>>
    /\ node = "up"
    /\ agent_metrics = <<>>
    /\ swarm_templates = InstalledTemplates
    /\ client = IdleClient

WorkerNext ==
    \/ \E sid \in {1, 2}, w \in WorkerIds : CreateWorker(sid, w)
    \/ \E w \in WorkerIds, st \in WorkerStatuses : SetWorkerStatus(w, st)
    \/ \E w \in WorkerIds, i \in TokenCounts, o \in TokenCounts : SetWorkerTokens(w, i, o)
    \/ Tick

WorkerSpec == WorkerInit /\ [][WorkerNext]_vars

(* IsoSpec: two users with a credential each; the first owns the session
   that was created before, and either of them sends the requests *)
IsoInit ==
    /\ now = 0
    /\ sessions = CreatedSessions(1)
    /\ credentials = [u \in Users |-> Some("sk-1")]
    /\ reqs = [r \in ReqIds |-> IdleReq]
    /\ workers = <<>>
    /\ mems = [m \in MemIds |-> IdleMem]
    /\ memory_operations = <<>>
    /\ node = "up"
    /\ agent_metrics = <<>>
    /\ swarm_templates = InstalledTemplates
    /\ client = IdleClient

IsoNext ==
    \/ \E u \in Users, streaming \in BOOLEAN :
            ExecuteSwarm(1, u, 1, "fix bug", "quick", streaming)
    \/ ProcStdout(1)
    \/ ProcStderr(1)
    \/ \E code \in ExitCodes \cup {SpawnFailCode} : ProcClose(1, code)
    \/ ProcError(1)
    \/ AbortSwarm(1)
    \/ Tick

IsoSpec == IsoInit /\ [][IsoNext]_vars

(***************************** claims ***************************************)
RECURSIVE ConcatChannel(_, _)
\* the texts of the chunks of one channel, concatenated in order of arrival
ConcatChannel(chunks, channel) ==
    IF chunks = <<>> THEN <<>>
    ELSE (IF chunks[1].channel = channel THEN chunks[1].text ELSE <<>>)
         \o ConcatChannel(Tail(chunks), channel)

\* C1: once a session's status is completed, failed or aborted, no step
\* changes that session's status again.
C1_StatusMonotonic ==
    [][\A s \in DOMAIN sessions :
          sessions[s].status \in TerminalStatuses
              => sessions'[s].status = sessions[s].status]_vars

\* C2: the step in which the subprocess of an execute request exits leaves the
\* session completed when the exit code is 0, and otherwise failed with
\* error_message the concatenation of all stderr chunks received from it.
C2_ExitCodeToStatus ==
    [][\A r \in ReqIds :
          (reqs[r].exitCode = Null /\ reqs'[r].exitCode # Null)
              => LET code == reqs'[r].exitCode[1]
                     row == sessions'[reqs'[r].sessionId]
                 IN  IF code = 0
                     THEN row.status = "completed"
                     ELSE /\ row.status = "failed"
                          /\ row.error_message =
                                Some(ConcatChannel(reqs'[r].chunks, "stderr"))]_vars

C2_Witness ==
    \E r \in ReqIds :
        /\ reqs[r].exitCode = Some(1)
        /\ Len(reqs[r].chunks) = 2
        /\ \A i \in 1..2 : reqs[r].chunks[i].channel = "stderr"
        /\ sessions[reqs[r].sessionId].status = "failed"
        /\ sessions[reqs[r].sessionId].error_message = Some(ChunkText(1) \o ChunkText(2))

\* the request was answered with the missing-credential error
CredentialFailure(req) ==
    /\ req.res.ended
    /\ IF req.streaming
       THEN /\ req.res.stream # <<>>
            /\ Last(req.res.stream).type = "error"
            /\ Last(req.res.stream).message = CredErrMsg
       ELSE req.res.statusCode = 400

\* C3: an execute request whose user has no active credential spawns no
\* subprocess, then or later: the request fails and the store is unchanged.
C3_NoCredentialNoSpawn ==
    [][\A r \in ReqIds :
          /\ (reqs[r].pc = "idle" /\ reqs'[r].pc # "idle"
                  /\ getActiveCredential(reqs'[r].userId) = Null)
                => /\ ~Spawned(reqs'[r])
                   /\ reqs'[r].pc = "done"
                   /\ CredentialFailure(reqs'[r])
                   /\ sessions' = sessions
          /\ (reqs[r].pc = "done" /\ ~Spawned(reqs[r])) => ~Spawned(reqs'[r])]_vars

C3_Witness ==
    \E r \in ReqIds :
        /\ reqs[r].pc = "done"
        /\ ~Spawned(reqs[r])
        /\ reqs[r].sessionId \in DOMAIN sessions
        /\ CredentialFailure(reqs[r])

\* the streaming execute requests that reached the stream
Streams == {r \in ReqIds : reqs[r].pc # "idle" /\ reqs[r].streaming}

\* C4 as stated: every completed, failed or error event is the last event of
\* its stream and closes it; status and output events never close it.
C4_TerminalTypesClose ==
    \A r \in Streams :
        LET stream == reqs[r].res.stream
        IN  /\ \A i \in 1..Len(stream) :
                  stream[i].type \in {"completed", "failed", "error"}
                      => i = Len(stream) /\ reqs[r].res.ended
            /\ reqs[r].res.ended => Last(stream).type \notin {"status", "output"}

\* an error event that reports a missing credential or a failed spawn
ReportsFailure(event) ==
    event.type = "error" /\ event.message \in {CredErrMsg, SpawnErrMsg}

\* C4 amended: every completed or failed event, and every error event that
\* reports a missing credential or a failed spawn, is the last event of its
\* stream and closes it; status and output events, and the error events that
\* relay a stderr chunk, never close it.
C4_ClosingEvents ==
    \A r \in Streams :
        LET stream == reqs[r].res.stream
        IN  /\ \A i \in 1..Len(stream) :
                  (stream[i].type \in {"completed", "failed"} \/ ReportsFailure(stream[i]))
                      => i = Len(stream) /\ reqs[r].res.ended
            /\ reqs[r].res.ended
                  => \/ Last(stream).type \in {"completed", "failed"}
                     \/ ReportsFailure(Last(stream))

C4_Witness ==
    \E r \in Streams :
        LET stream == reqs[r].res.stream
        IN  /\ reqs[r].res.ended
            /\ Len(stream) = 3
            /\ stream[2].type = "error" /\ stream[2].message = ChunkText(1)
            /\ stream[3].type = "failed"

\* C5: once the spawn error has been handled (the session failed with the
\* spawn error message, the stream ended by an error event), every later
\* callback of that subprocess leaves the session failed with that message
\* and the error event last on the stream.
C5_SpawnErrorFinal ==
    [][\A r \in ReqIds :
          LET sid == reqs[r].sessionId
          IN  (/\ reqs[r].pc = "errored"
               /\ sessions[sid].status = "failed"
               /\ sessions[sid].error_message = Some(SpawnErrMsg)
               /\ reqs'[r] # reqs[r])
                  => /\ sessions'[sid].status = "failed"
                     /\ sessions'[sid].error_message = Some(SpawnErrMsg)
                     /\ reqs'[r].streaming
                           => Last(reqs'[r].res.stream).type = "error"]_vars

\* C6: after a streaming request's subprocess exited with code 0, the last
\* event of the stream is a completed event with the sessionId and the
\* duration, and the store held completed for the session when it was sent.
C6_CompletedEventFinal ==
    \A r \in Streams :
        reqs[r].exitCode = Some(0)
            => LET event == Last(reqs[r].res.stream)
               IN  /\ reqs[r].res.ended
                   /\ event.type = "completed"
                   /\ event.sessionId = reqs[r].sessionId
                   /\ "duration" \in DOMAIN event
                   /\ event.duration \in 0..MaxClock
                   /\ Last(reqs[r].res.seen) = "completed"

C6_Witness ==
    \E r \in Streams :
        /\ reqs[r].exitCode = Some(0)
        /\ Len(reqs[r].res.stream) = 3
        /\ Last(reqs[r].res.stream).type = "completed"
        /\ Last(reqs[r].res.stream).duration = 1
        /\ sessions[reqs[r].sessionId].status = "completed"

\* C7: in every state, a session's completed_at is non-null exactly when its
\* status is completed, failed or aborted; a session that has just been
\* created has status active and completed_at null.
C7_CompletedAtIffTerminal ==
    /\ [](\A s \in DOMAIN sessions :
             sessions[s].completed_at # Null <=> sessions[s].status \in TerminalStatuses)
    /\ [][\A s \in DOMAIN sessions' \ DOMAIN sessions :
             sessions'[s].status = "active" /\ sessions'[s].completed_at = Null]_vars

C7_Witness ==
    /\ DOMAIN sessions = {1, 2}
    /\ sessions[1].status = "aborted" /\ sessions[1].completed_at = Some(1)
    /\ sessions[2].status = "active" /\ sessions[2].completed_at = Null

AbortInputs == SessionIds \cup {StrangerId}

\* C8: an abort request for an existing session leaves the session aborted
\* and answers 200 with the sessionId and status aborted; an abort request
\* for an unknown identifier answers 404 and leaves every row as it was.
C8_AbortReplies ==
    \A s \in AbortInputs :
        LET answer == AbortReply(sessions, s)
            db1 == AbortDb(sessions, s)
        IN  IF s \in DOMAIN sessions
            THEN /\ db1[s].status = "aborted"
                 /\ answer.statusCode = 200
                 /\ answer.body.sessionId = s
                 /\ answer.body.status = "aborted"
            ELSE /\ answer.statusCode = 404
                 /\ db1 = sessions

C8_Witness ==
    /\ DOMAIN sessions = {1}
    /\ sessions[1].status = "aborted"
    /\ AbortReply(sessions, 2).statusCode = 404

\* C9: a step that aborts a session changes the row of that session only:
\* no execute request (its subprocess, its stream) changes, no other row
\* changes, no row appears or disappears.
C9_AbortFrame ==
    [][\A s \in DOMAIN sessions :
          (sessions'[s] # sessions[s] /\ sessions'[s].status = "aborted")
              => /\ reqs' = reqs
                 /\ credentials' = credentials
                 /\ DOMAIN sessions' = DOMAIN sessions
                 /\ \A t \in DOMAIN sessions \ {s} : sessions'[t] = sessions[t]]_vars

C9_Witness ==
    /\ DOMAIN sessions = {1, 2}
    /\ sessions[1].status = "aborted"
    /\ sessions[2].status = "active"
    /\ sessions[1].completed_at = Some(1)
    /\ \E r \in ReqIds : /\ reqs[r].pc = "running" /\ reqs[r].sessionId = 1
                         /\ reqs[r].startTime = 0
                         /\ Len(reqs[r].res.stream) = 2

\* the event that relays a chunk
Relayed(chunk, sessionId) ==
    [ type |-> IF chunk.channel = "stdout" THEN "output" ELSE "error",
      message |-> chunk.text, sessionId |-> sessionId ]

\* C10: in every state the stream of a streaming request holds, after the
\* status event, exactly one event for each chunk received so far, in the
\* order of arrival, tagged output for stdout and error for stderr, followed
\* by at most the closing event.
C10_OneEventPerChunk ==
    \A r \in Streams :
        Spawned(reqs[r])
            => LET stream == reqs[r].res.stream
                   chunks == reqs[r].chunks
               IN  /\ Len(stream) \in {1 + Len(chunks), 2 + Len(chunks)}
                   /\ stream[1].type = "status"
                   /\ \A i \in 1..Len(chunks) :
                         stream[1 + i] = Relayed(chunks[i], reqs[r].sessionId)
                   /\ Len(stream) = 2 + Len(chunks) => reqs[r].pc \in {"errored", "done"}

C10_Witness ==
    \E r \in Streams :
        /\ reqs[r].pc = "running"
        /\ Len(reqs[r].chunks) = 2
        /\ reqs[r].chunks[1].channel = "stderr"
        /\ reqs[r].chunks[2].channel = "stdout"
        /\ reqs[r].res.stream[2].type = "error"
        /\ reqs[r].res.stream[3].type = "output"

\* what the subprocess of a request alone makes of its session's row
OwnOutcome(req) ==
    IF req.exitCode # Null
    THEN IF req.exitCode[1] = 0
         THEN [status |-> "completed", error_message |-> Null]
         ELSE [status |-> "failed",
               error_message |-> Some(ConcatChannel(req.chunks, "stderr"))]
    ELSE IF req.pc = "errored"
    THEN [status |-> "failed", error_message |-> Some(SpawnErrMsg)]
    ELSE [status |-> "active", error_message |-> Null]

\* C11: while execute requests run concurrently on distinct sessions, under
\* every interleaving of their callbacks the row of each request's session
\* holds the status and error message that the request's own subprocess
\* produced, and each stream holds events of its own session only: the status
\* event, then one event per chunk of its own subprocess in order of arrival.
C11_ConcurrentSessionsIndependent ==
    \A r \in ReqIds :
        (/\ reqs[r].pc # "idle"
         /\ \A q \in ReqIds \ {r} :
               reqs[q].pc = "idle" \/ reqs[q].sessionId # reqs[r].sessionId)
            => LET row == sessions[reqs[r].sessionId]
                   stream == reqs[r].res.stream
                   chunks == reqs[r].chunks
               IN  /\ row.status = OwnOutcome(reqs[r]).status
                   /\ row.error_message = OwnOutcome(reqs[r]).error_message
                   /\ \A i \in 1..Len(stream) : stream[i].sessionId = reqs[r].sessionId
                   /\ reqs[r].streaming
                         => /\ Len(stream) >= 1 + Len(chunks)
                            /\ \A i \in 1..Len(chunks) :
                                  stream[1 + i] = Relayed(chunks[i], reqs[r].sessionId)

C11_Witness ==
    /\ reqs[1].sessionId = 2 /\ reqs[2].sessionId = 1
    /\ reqs[1].streaming /\ reqs[2].streaming
    /\ reqs[1].exitCode = Some(1) /\ reqs[2].exitCode = Some(0)
    /\ Len(reqs[1].chunks) = 2 /\ reqs[1].chunks[2].channel = "stderr"
    /\ Len(reqs[2].chunks) = 2
    /\ sessions[2].status = "failed"
    /\ sessions[2].error_message = Some(ConcatChannel(reqs[1].chunks, "stderr"))
    /\ sessions[1].status = "completed"

\* C12: the step in which the consumer of a streaming request disconnects
\* leaves the subprocess running and the store as it was; and when the
\* subprocess of a request whose consumer is gone exits, the step leaves the
\* session completed for exit code 0 and failed otherwise, with the stderr
\* chunks received before and after the disconnection.
C12_DisconnectKeepsSubprocess ==
    [][\A r \in ReqIds :
          reqs[r].streaming
              => /\ (reqs[r].res.connected /\ ~reqs'[r].res.connected)
                       => /\ reqs'[r].pc = "running"
                          /\ reqs'[r].spawn = reqs[r].spawn
                          /\ reqs'[r].exitCode = Null
                          /\ sessions' = sessions
                 /\ (~reqs[r].res.connected /\ reqs[r].exitCode = Null
                         /\ reqs'[r].exitCode # Null)
                       => LET row == sessions'[reqs'[r].sessionId]
                          IN  IF reqs'[r].exitCode[1] = 0
                              THEN row.status = "completed"
                              ELSE /\ row.status = "failed"
                                   /\ row.error_message =
                                         Some(ConcatChannel(reqs'[r].chunks, "stderr"))]_vars

C12_Witness ==
    \E r \in ReqIds :
        /\ reqs[r].streaming
        /\ ~reqs[r].res.connected
        /\ reqs[r].res.delivered = 2
        /\ Len(reqs[r].res.stream) = 4
        /\ reqs[r].chunks[2].channel = "stderr"
        /\ reqs[r].exitCode = Some(1)
        /\ sessions[reqs[r].sessionId].status = "failed"
        /\ sessions[reqs[r].sessionId].error_message = Some(ChunkText(2))
        /\ sessions[reqs[r].sessionId].completed_at = Some(1)

\* C13: no step spawns a subprocess for a request that has spawned one: the
\* spawn of a request never changes once made, a request runs a subprocess
\* only from the moment its handler spawned it, and once the subprocess has
\* exited or failed to spawn the request never runs a subprocess again.
C13_NoRetry ==
    [][\A r \in ReqIds :
          /\ Spawned(reqs[r]) => reqs'[r].spawn = reqs[r].spawn
          /\ (reqs'[r].pc = "running" /\ reqs[r].pc # "running") => reqs[r].pc = "idle"
          /\ reqs'[r].exitCode # Null => reqs'[r].pc = "done"
          /\ reqs[r].pc \in {"errored", "done"}
                => /\ reqs'[r].pc \in {"errored", "done"}
                   /\ reqs'[r].chunks = reqs[r].chunks]_vars

C13_Witness ==
    \E r \in ReqIds :
        /\ Spawned(reqs[r])
        /\ reqs[r].pc = "done"
        /\ reqs[r].exitCode = Some(SpawnFailCode)
        /\ sessions[reqs[r].sessionId].status = "failed"
        /\ now = MaxClock

\* C14: in every state, a create request whose projectName, projectPath or
\* taskDescription is empty or missing is answered 400 and leaves the set of
\* stored sessions as it was.
C14_CreateValidation ==
    \A u \in Users, s \in SessionIds, pn \in ProjectNames, pp \in ProjectPaths,
       td \in TaskDescriptions, st \in SwarmTypes :
        (pn = "" \/ pp = "" \/ td = "")
            => /\ CreateReply(sessions, u, s, pn, pp, td, st).statusCode = 400
               /\ CreateDb(sessions, u, s, pn, pp, td, st) = sessions

C14_Witness ==
    /\ DOMAIN sessions = {1}
    /\ CreateReply(sessions, 1, 2, "acme", "", "fix bug", "quick").statusCode = 400
    /\ CreateDb(sessions, 1, 2, "acme", "", "fix bug", "quick") = sessions
    /\ CreateReply(sessions, 1, 2, "acme", "/p", "fix bug", "quick").statusCode = 200

\* C15: in every state, a create request that is answered with success
\* returns an identifier that no stored session has (so no earlier create
\* returned it), and fetching the session by that identifier right after
\* returns the projectName and taskDescription supplied and status active,
\* all other sessions being as they were.
C15_CreateRoundTrip ==
    \A u \in Users, s \in StoreIds, pn \in StoreProjectNames, td \in TaskDescriptions :
        LET answer == CreateReply(sessions, u, s, pn, "/p", td, "quick")
            db1 == CreateDb(sessions, u, s, pn, "/p", td, "quick")
        IN  answer.statusCode = 200
                => /\ answer.body.sessionId = s
                   /\ s \notin DOMAIN sessions
                   /\ getSwarmSession(db1, s) # Null
                   /\ getSwarmSession(db1, s)[1].project_name = pn
                   /\ getSwarmSession(db1, s)[1].task_description = td
                   /\ getSwarmSession(db1, s)[1].status = "active"
                   /\ \A t \in DOMAIN sessions : db1[t] = sessions[t]

C15_Witness ==
    /\ DOMAIN sessions = {1, 2}
    /\ sessions[2].id = 1 /\ sessions[2].project_name = "zeta"
    /\ sessions[1].id = 2 /\ sessions[1].project_name = "acme"
    /\ sessions[1].status = "active" /\ sessions[2].status = "active"
    /\ CreateReply(sessions, 1, 2, "acme", "/p", "fix bug", "quick").statusCode = 500

\* C18: in every state, setStatus on an identifier that has no row returns
\* false and leaves every row as it was, and setStatus on an identifier that
\* has a row returns true.
C18_SetStatusZeroRows ==
    \A s \in StoreIds \cup {StrangerId}, st \in Statuses, e \in StoreErrors :
        IF s \in DOMAIN sessions
        THEN updateSwarmStatusChanged(sessions, s)
        ELSE /\ ~updateSwarmStatusChanged(sessions, s)
             /\ updateSwarmStatus(sessions, s, st, e) = sessions

C18_Witness ==
    /\ DOMAIN sessions = {2}
    /\ sessions[2].status = "failed"
    /\ sessions[2].error_message = Some(<<"boom">>)
    /\ ~updateSwarmStatusChanged(sessions, 1)
    /\ updateSwarmStatusChanged(sessions, 2)

\* C19: a step that sets a session's status to the terminal status it already
\* has leaves completed_at at the value the first call wrote.
C19_CompletedAtFirstWriteWins ==
    [][\A s \in DOMAIN sessions :
          (sessions[s].status \in TerminalStatuses
               /\ sessions'[s].status = sessions[s].status)
              => sessions'[s].completed_at = sessions[s].completed_at]_vars

\* C17: every memory request and every execute request that spawned its
\* subprocess is eventually answered, whatever becomes of the subprocess.
C17_EveryRequestAnswered ==
    /\ \A m \in MemIds : [](mems[m].pc # "idle" => <>(mems[m].res.ended))
    /\ \A r \in ReqIds : [](reqs[r].pc # "idle" => <>(reqs[r].res.ended))

\* the execute requests that were answered for want of a credential
Uncredentialed == {r \in ReqIds : reqs[r].pc = "done" /\ ~Spawned(reqs[r])}

\* an execute request for an identifier that has no session is answered 404,
\* whatever its mode (the lookup precedes the setup of the stream)
UnknownSessionIs404 ==
    \A s \in SessionIds \cup {StrangerId}, td \in TaskDescriptions \ {""} :
        s \notin DOMAIN sessions
            => /\ ExecuteEarlyReply(sessions, s, td) # Null
               /\ ExecuteEarlyReply(sessions, s, td)[1].statusCode = 404

\* C16 as stated: an execute request is answered 404 when the session is
\* unknown and 400 when the owner has no credential, in both modes.
C16_Execute404And400 ==
    /\ UnknownSessionIs404
    /\ \A r \in Uncredentialed : reqs[r].res.statusCode = 400

\* C16 amended: an execute request is answered 404 when the session is
\* unknown, in both modes; when the owner has no credential it is answered
\* 400 with the error in the body in non-streaming mode, and in streaming
\* mode the response, begun with status 200, ends with an error event that
\* carries the credential message.
C16_ExecuteErrorsByMode ==
    /\ UnknownSessionIs404
    /\ \A r \in Uncredentialed :
          /\ reqs[r].res.ended
          /\ IF reqs[r].streaming
             THEN /\ reqs[r].res.statusCode = 200
                  /\ reqs[r].res.body = Null
                  /\ Len(reqs[r].res.stream) = 2
                  /\ Last(reqs[r].res.stream) =
                        [type |-> "error", message |-> CredErrMsg,
                         sessionId |-> reqs[r].sessionId]
             ELSE /\ reqs[r].res.statusCode = 400
                  /\ reqs[r].res.body = Some([error |-> CredErrMsg])
                  /\ reqs[r].res.stream = <<>>

C16_Witness ==
    \E r \in Uncredentialed :
        /\ reqs[r].streaming
        /\ reqs[r].res.statusCode = 200
        /\ Last(reqs[r].res.stream).type = "error"
        /\ DOMAIN sessions = {1}
        /\ ExecuteEarlyReply(sessions, 2, "fix bug")[1].statusCode = 404

\* C20: in every state, every worker's total_tokens is the sum of its
\* input_tokens and its output_tokens.
C20_TotalIsSum ==
    \A i \in DOMAIN workers :
        workers[i].total_tokens = workers[i].input_tokens + workers[i].output_tokens

C20_Witness ==
    /\ Len(workers) = 2
    /\ workers[1].input_tokens = 2 /\ workers[1].output_tokens = 1
    /\ workers[1].total_tokens = 3
    /\ workers[1].status = "completed"
    /\ workers[2].status = "pending" /\ workers[2].total_tokens = 0

\* C21: a step writes a worker's started_at only when the worker has none and
\* the step moves it to active, the value written being the time of that
\* step; a worker that is moved to active has a started_at afterwards; and
\* no step changes or clears a started_at that has been written.
C21_StartedAtWrittenOnce ==
    [][\A i \in DOMAIN workers :
          /\ workers[i].started_at # Null
                => workers'[i].started_at = workers[i].started_at
          /\ (workers[i].started_at = Null /\ workers'[i].started_at # Null)
                => /\ workers'[i].status = "active"
                   /\ workers'[i].started_at = Some(now)
          /\ workers'[i].status = "active" => workers'[i].started_at # Null]_vars

C21_Witness ==
    /\ now = 1
    /\ Len(workers) = 2
    /\ workers[1].status = "pending" /\ workers[1].started_at = Some(0)
    /\ workers[2].status = "active" /\ workers[2].started_at = Some(0)
    /\ workers[2].completed_at = Null

C23_UserIsolation ==
    /\ \A r \in ReqIds :
          reqs[r].pc # "idle" => sessions[reqs[r].sessionId].user_id = reqs[r].userId
    /\ \A u \in Users, s \in DOMAIN sessions :
          sessions[s].user_id # u
              => /\ s \notin SessionsOfUser(sessions, u, "")
                 /\ SessionDetailsReply(sessions, workers, s).statusCode = 404
                 /\ AbortReply(sessions, s).statusCode = 404
                 /\ AbortDb(sessions, s) = sessions

\* C24: in every state, a session whose status is terminal has a completed_at
\* that is non-null and not earlier than its created_at.
C24_CompletedNotBeforeCreated ==
    \A s \in DOMAIN sessions :
        sessions[s].status \in TerminalStatuses
            => /\ sessions[s].completed_at # Null
               /\ sessions[s].completed_at[1] >= sessions[s].created_at

C24_Witness ==
    /\ DOMAIN sessions = {1, 2}
    /\ sessions[1].created_at = 0 /\ sessions[1].status = "completed"
    /\ sessions[1].completed_at = Some(1)
    /\ sessions[2].created_at = 1 /\ sessions[2].status = "failed"
    /\ sessions[2].completed_at = Some(1)

\* C25: in every state, two execute requests whose subprocesses are running
\* are on distinct sessions.
C25_OneSubprocessPerSession ==
    \A r, q \in ReqIds :
        (r # q /\ reqs[r].pc = "running" /\ reqs[q].pc = "running")
            => reqs[r].sessionId # reqs[q].sessionId

\* C26: in every state, no execute request has written an event to, or
\* completed, a response that was already ended.
C26_ResponseCompletedOnce ==
    \A r \in ReqIds : reqs[r].res.faults = 0

\* C28: a step that leaves a session with a non-terminal status leaves its
\* created_at and its completed_at as they were.
C28_NonTerminalKeepsTimestamps ==
    [][\A s \in DOMAIN sessions :
          sessions'[s].status \notin TerminalStatuses
              => /\ sessions'[s].created_at = sessions[s].created_at
                 /\ sessions'[s].completed_at = sessions[s].completed_at]_vars

\* C29: a new worker is pending; a step changes a worker's status only from
\* pending to active or from active to completed or failed; and no step
\* changes the status or the completed_at of a completed or failed worker.
C29_WorkerLifecycle ==
    [][/\ \A i \in DOMAIN workers' \ DOMAIN workers : workers'[i].status = "pending"
       /\ \A i \in DOMAIN workers :
             /\ workers'[i].status # workers[i].status
                   => \/ workers[i].status = "pending" /\ workers'[i].status = "active"
                      \/ /\ workers[i].status = "active"
                         /\ workers'[i].status \in {"completed", "failed"}
             /\ workers[i].status \in {"completed", "failed"}
                   => /\ workers'[i].status = workers[i].status
                      /\ workers'[i].completed_at = workers[i].completed_at]_vars


(* C27: once the subprocess of an execute request has exited, the session
   reaches a terminal status and the response is completed; as long as the
   subprocess has not exited the response stays open, whatever the clock
   shows. *)
C27_ExitCompletesResponse ==
    /\ \A r \in ReqIds :
           (reqs[r].pc = "closing")
               ~> /\ reqs[r].res.ended
                  /\ reqs[r].sessionId \in DOMAIN sessions
                  /\ sessions[reqs[r].sessionId].status \in TerminalStatuses
    /\ [](\A r \in ReqIds :
              reqs[r].pc \in {"running", "closing"} => ~reqs[r].res.ended)

\* a subprocess that ran for the whole clock exited with a failure: the
\* response was held open until then and is now completed
C27_Witness ==
    /\ reqs[1].pc = "done"
    /\ reqs[1].exitCode = Some(1)
    /\ reqs[1].startTime = 0
    /\ now = MaxClock
    /\ reqs[1].chunks # <<>>
    /\ reqs[1].res.ended
    /\ reqs[1].res.faults = 0
    /\ sessions[1].status = "failed"


\* the subprocess of the request failed: it could not be spawned, or it
\* exited with a nonzero code
ProcessFailed(req) ==
    \/ req.pc = "errored"
    \/ req.pc = "done" /\ req.exitCode # Null /\ req.exitCode # Some(0)

ClosedMems == {m \in DOMAIN mems : mems[m].pc = "done"}

(* C31: the memory operation log holds one entry for each memory request whose
   subprocess was closed; the close of a request appends one entry, of that
   request, whose success flag is 1 exactly when the exit code is 0; every
   other step leaves the log as it is, and no step changes or removes an
   entry that is in the log. *)
C31_LogAppendOnly ==
    /\ [](Len(memory_operations) = Cardinality(ClosedMems))
    /\ [][/\ Len(memory_operations') >= Len(memory_operations)
          /\ SubSeq(memory_operations', 1, Len(memory_operations)) = memory_operations
          /\ \A m \in DOMAIN mems :
                (mems[m].pc # "done" /\ mems'[m].pc = "done")
                    => /\ Len(memory_operations') = Len(memory_operations) + 1
                       /\ Last(memory_operations').success
                              = (IF mems'[m].exitCode = Some(0) THEN 1 ELSE 0)
                       /\ Last(memory_operations').operation_type = mems[m].operationType
                       /\ Last(memory_operations').user_id = mems[m].userId
          /\ (\A m \in DOMAIN mems : mems[m].pc = "done" <=> mems'[m].pc = "done")
                => memory_operations' = memory_operations]_vars

\* a store that succeeded and a query that failed are both in the log, the
\* first entry as it was written
C31_Witness ==
    /\ Len(memory_operations) = 2
    /\ memory_operations[1].operation_type = "store"
    /\ memory_operations[1].success = 1
    /\ memory_operations[2].operation_type = "vector-search"
    /\ memory_operations[2].success = 0
    /\ \E m \in DOMAIN mems : mems[m].route = "store" /\ mems[m].exitCode = Some(0)
    /\ \E m \in DOMAIN mems : mems[m].route = "query" /\ mems[m].exitCode = Some(1)


\* the rows of an (owner, agent type) pair in a table
RowsOfPair(rows, pair) == {rows[i] : i \in SelectAgentMetrics(rows, pair[1], pair[2])}

(* C32: in every state no two metrics rows have the same owner and agent type
   and every row's total_tokens is the sum of its two token totals; every
   update leaves exactly one row for its pair, whose usage_count is one more
   than the pair's count before (one for a pair with no row), and leaves the
   rows of the other pairs as they are. *)
C32_OneRowPerPair ==
    /\ [](\A i, j \in DOMAIN agent_metrics :
              /\ (agent_metrics[i].user_id = agent_metrics[j].user_id
                    /\ agent_metrics[i].agent_type = agent_metrics[j].agent_type) => i = j
              /\ agent_metrics[i].total_tokens
                    = agent_metrics[i].total_input_tokens
                        + agent_metrics[i].total_output_tokens)
    /\ [][agent_metrics' # agent_metrics =>
            \E pair \in Users \X AgentTypes :
                LET before == RowsOfPair(agent_metrics, pair)
                    after == RowsOfPair(agent_metrics', pair)
                IN  /\ Cardinality(after) = 1
                    /\ \A row \in after :
                          \/ before = {} /\ row.usage_count = 1
                          \/ \E old \in before : row.usage_count = old.usage_count + 1
                    /\ \A other \in (Users \X AgentTypes) \ {pair} :
                          RowsOfPair(agent_metrics', other) = RowsOfPair(agent_metrics, other)
                    /\ Len(agent_metrics') = Len(agent_metrics)
                                               + (IF before = {} THEN 1 ELSE 0)]_vars

\* both owners have a row, one updated three times and one twice, with
\* tokens counted
C32_Witness ==
    /\ Len(agent_metrics) = 2
    /\ \E i, j \in DOMAIN agent_metrics :
          /\ agent_metrics[i].user_id = 1
          /\ agent_metrics[i].usage_count = 3
          /\ agent_metrics[i].total_tokens = 6
          /\ agent_metrics[j].user_id = 2
          /\ agent_metrics[j].usage_count = 2
          /\ agent_metrics[j].total_tokens = 3


\* the inputs of GET /swarm/sessions: the project filter ("" is none) and the
\* limit of the query string (Null is none)
ListFilters == {""} \cup StoreProjectNames
LimitQueries == {Null} \cup {Some(t) : t \in LimitTexts}

(* C33: in every state, for every owner, filter and limit, every answer of the
   list lists sessions of that owner and project only, each once, newest
   first, all of them when they are no more than limit and never more than
   limit (none for a limit below zero), and reports the length of the list as count. *)
C33_ListSessions ==
    \A u \in Users, pn \in ListFilters, lq \in LimitQueries :
        \A reply \in SessionsListReply(sessions, u, pn, lq) :
            LET rows == reply.body.sessions
                owned == SessionsOfUser(sessions, u, pn)
            IN  /\ \A i \in DOMAIN rows :
                      /\ rows[i].session_id \in owned
                      /\ rows[i].user_id = u
                      /\ pn # "" => rows[i].project_name = pn
                /\ \A i, j \in DOMAIN rows : i < j =>
                      /\ rows[i].session_id # rows[j].session_id
                      /\ rows[i].created_at >= rows[j].created_at
                /\ Cardinality(owned) <= LimitOf(lq) => Len(rows) = Cardinality(owned)
                /\ Len(rows) <= (IF LimitOf(lq) < 0 THEN 0 ELSE LimitOf(lq))
                /\ reply.body.count = Len(rows)


(* C34: in every state of a database that was initialised, whatever the number
   of initialisations, the templates marked as system templates are six. *)
C34_SixSystemTemplates ==
    swarm_templates # <<>>
        => Cardinality(getSwarmTemplates(swarm_templates, Null, TRUE)) = 6


(* C35: when executeSwarm has read a response to its end, onMessage was called
   once for each frame the server wrote, in the order of the frames, however
   the characters were cut into chunks. *)
C35_OneMessagePerFrame ==
    client.pc = "done" => client.received = client.frames


RECURSIVE ConcatMessages(_, _)
\* the messages of the events of one type in a stream, concatenated in order
ConcatMessages(stream, type) ==
    IF stream = <<>> THEN <<>>
    ELSE (IF stream[1].type = type THEN stream[1].message ELSE <<>>)
         \o ConcatMessages(Tail(stream), type)

(* C36: in every state, the output of every completed event is the
   concatenation, in order, of the messages of the output events of its stream
   and of the stdout chunks of the execution; the error of every failed event
   is the concatenation, in order, of the stderr chunks; the body that answers
   a non-streaming request whose subprocess exited carries both
   concatenations. *)
C36_OutputIsConcatenation ==
    \A r \in ReqIds :
        LET stream == reqs[r].res.stream
        IN  /\ \A i \in DOMAIN stream :
                  /\ stream[i].type = "completed"
                        => /\ stream[i].output = ConcatMessages(stream, "output")
                           /\ stream[i].output = ConcatChannel(reqs[r].chunks, "stdout")
                  /\ stream[i].type = "failed"
                        => stream[i].error = ConcatChannel(reqs[r].chunks, "stderr")
            /\ (~reqs[r].streaming /\ reqs[r].pc = "done"
                    /\ reqs[r].exitCode \in {Some(code) : code \in ExitCodes})
                  => /\ reqs[r].res.body # Null
                     /\ reqs[r].res.body[1].output = ConcatChannel(reqs[r].chunks, "stdout")
                     /\ reqs[r].res.body[1].error = ConcatChannel(reqs[r].chunks, "stderr")

\* a stream that relayed two stdout chunks ends with a completed event whose
\* output is the two chunks in order
C36_Witness ==
    \E r \in ReqIds :
        /\ reqs[r].streaming
        /\ reqs[r].pc = "done"
        /\ reqs[r].exitCode = Some(0)
        /\ Len(reqs[r].chunks) = 2
        /\ \A i \in 1..2 : reqs[r].chunks[i].channel = "stdout"
        /\ Last(reqs[r].res.stream).type = "completed"
        /\ Last(reqs[r].res.stream).output = ChunkText(1) \o ChunkText(2)

====
